---- MODULE Spec2Model ----
(***************************************************************************)
(* Model of the URL sanitisation rule engine (src/src/sanitizer.rs).       *)
(*                                                                         *)
(* Strings are sequences of one-character strings, so that substring       *)
(* search, prefix tests, percent-encoding and URL parsing are computed on  *)
(* the text as the code computes them.  An Option is a sequence of length  *)
(* 0 (None) or 1 (Some).                                                   *)
(***************************************************************************)
EXTENDS Integers, Sequences, FiniteSets, TLC

None == << >>
Some(x) == << x >>
IsSome(o) == Len(o) = 1
Unwrap(o) == o[1]

(***************************************************************************)
(* String primitives (str::starts_with, str::contains, str::find).         *)
(***************************************************************************)
StartsWith(s, p) ==
    /\ Len(p) <= Len(s)
    /\ SubSeq(s, 1, Len(p)) = p

Drop(s, n) == SubSeq(s, n + 1, Len(s))

Take(s, n) == SubSeq(s, 1, n)

\* 1-based position of the leftmost occurrence of p in s at or after position
\* from; 0 when there is none.
FindFrom(s, p, from) ==
    LET hits == { i \in from .. (Len(s) - Len(p) + 1) : SubSeq(s, i, i + Len(p) - 1) = p }
    IN  IF hits = {} THEN 0 ELSE CHOOSE i \in hits : \A j \in hits : i <= j

Find(s, p) == FindFrom(s, p, 1)

Contains(s, p) == Find(s, p) # 0

\* Position of the first character of s at or after from that lies in cs;
\* Len(s) + 1 when there is none.
FindAnyFrom(s, cs, from) ==
    LET hits == { i \in from .. Len(s) : s[i] \in cs }
    IN  IF hits = {} THEN Len(s) + 1 ELSE CHOOSE i \in hits : \A j \in hits : i <= j

RECURSIVE Flatten(_)
Flatten(ss) == IF ss = << >> THEN << >> ELSE Head(ss) \o Flatten(Tail(ss))

\* s split at every occurrence of the character c (str::split).
RECURSIVE Split(_, _)
Split(s, c) ==
    LET i == FindAnyFrom(s, {c}, 1)
    IN  IF i > Len(s) THEN << s >>
        ELSE << Take(s, i - 1) >> \o Split(Drop(s, i), c)

\* str::to_lowercase, line 137
ToLowercase(s) ==
    LET Uppercase == << "A", "B", "C", "D", "E", "F", "G", "H", "I", "J", "K", "L", "M",
                        "N", "O", "P", "Q", "R", "S", "T", "U", "V", "W", "X", "Y", "Z" >>
        Lowercase == << "a", "b", "c", "d", "e", "f", "g", "h", "i", "j", "k", "l", "m",
                        "n", "o", "p", "q", "r", "s", "t", "u", "v", "w", "x", "y", "z" >>
    IN  [ i \in 1 .. Len(s) |->
            IF s[i] \in { "A", "B", "C", "D", "E", "F", "G", "H", "I", "J", "K", "L", "M",
                          "N", "O", "P", "Q", "R", "S", "T", "U", "V", "W", "X", "Y", "Z" }
            THEN Lowercase[CHOOSE k \in 1 .. 26 : Uppercase[k] = s[i]]
            ELSE s[i] ]

(***************************************************************************)
(* The characters of the modelled texts.                                   *)
(***************************************************************************)
Letters == { "a", "b", "c", "d", "e", "f", "g", "h", "i", "j", "k", "l", "m",
             "n", "o", "p", "q", "r", "s", "t", "u", "v", "w", "x", "y", "z" }

Digits == { "0", "1", "2", "3", "4", "5", "6", "7", "8", "9" }

\* Upper-case hexadecimal digits occur only inside percent escapes.
HexUpper == { "A", "B", "C", "D", "E", "F" }

(***************************************************************************)
(* Percent-encoding.  form_urlencoded::byte_serialize keeps ASCII          *)
(* alphanumerics and * - . _, writes a space as +, and writes every other  *)
(* byte as %XX; percent_decode replaces %XX by the byte.  Escapes lists    *)
(* the escape of every non-alphanumeric character of the modelled texts.   *)
(***************************************************************************)
Escapes ==
    { << ":", <<"%", "3", "A">> >>, << "/", <<"%", "2", "F">> >>,
      << "?", <<"%", "3", "F">> >>, << "=", <<"%", "3", "D">> >>,
      << "&", <<"%", "2", "6">> >>, << "#", <<"%", "2", "3">> >>,
      << "%", <<"%", "2", "5">> >>, << "+", <<"%", "2", "B">> >> }

Unreserved == Letters \cup Digits \cup HexUpper \cup { "*", "-", ".", "_" }

EncodeChar(c) ==
    IF c \in Unreserved THEN << c >>
    ELSE IF c = " " THEN << "+" >>
    ELSE (CHOOSE e \in Escapes : e[1] = c)[2]

\* form_urlencoded::byte_serialize
RECURSIVE ByteSerialize(_)
ByteSerialize(s) ==
    IF s = << >> THEN << >> ELSE EncodeChar(Head(s)) \o ByteSerialize(Tail(s))

\* percent_encoding::percent_decode: a % followed by the two digits of a known
\* escape is replaced by the character, any other % is kept.
RECURSIVE PercentDecode(_)
PercentDecode(s) ==
    IF s = << >> THEN << >>
    ELSE LET esc == { e \in Escapes : StartsWith(s, e[2]) }
         IN  IF esc # {} THEN << (CHOOSE e \in esc : TRUE)[1] >> \o PercentDecode(Drop(s, 3))
             ELSE << Head(s) >> \o PercentDecode(Tail(s))

\* form_urlencoded decoding of one name or value: + becomes a space, then the
\* escapes are decoded.
PlusToSpace(s) == [ i \in 1 .. Len(s) |-> IF s[i] = "+" THEN " " ELSE s[i] ]

FormDecode(s) == PercentDecode(PlusToSpace(s))

\* Url::query_pairs: the query split at &, empty pieces skipped, each piece split
\* at its first = into a decoded name and a decoded value.
ParsePair(piece) ==
    LET i == FindAnyFrom(piece, {"="}, 1)
    IN  << FormDecode(Take(piece, i - 1)), FormDecode(Drop(piece, i)) >>

QueryPairs(q) ==
    LET pieces == SelectSeq(Split(q, "&"), LAMBDA x : x # << >>)
    IN  [ i \in 1 .. Len(pieces) |-> ParsePair(pieces[i]) ]

\* form_urlencoded::Serializer: append_pair for every pair, then finish.
RECURSIVE SerializePairs(_)
SerializePairs(ps) ==
    IF ps = << >> THEN << >>
    ELSE ByteSerialize(Head(ps)[1]) \o << "=" >> \o ByteSerialize(Head(ps)[2])
         \o (IF Len(ps) > 1 THEN << "&" >> \o SerializePairs(Tail(ps)) ELSE << >>)

(***************************************************************************)
(* URLs (the url crate).  A parsed URL keeps its serialization in parts:   *)
(* scheme, whether "//" follows the scheme, host (an Option), port, path,  *)
(* query and fragment (Options), each as the text the serialization holds. *)
(* Modelled texts: lower-case letters, digits, the delimiters : / ? # & =  *)
(* % + and . _ - *, and the escapes of Escapes.  User info, IPv6 and IPv4  *)
(* hosts, dot segments and characters the parser would escape are not part *)
(* of the modelled texts.                                                  *)
(***************************************************************************)
\* The texts the model names, written out as character sequences.
Str(t) ==
    CASE t = "http" ->
            <<"h", "t", "t", "p">>
      [] t = "https" ->
            <<"h", "t", "t", "p", "s">>
      [] t = "mailto:" ->
            <<"m", "a", "i", "l", "t", "o", ":">>
      [] t = "://" ->
            <<":", "/", "/">>
      [] t = "http://" ->
            <<"h", "t", "t", "p", ":", "/", "/">>
      [] t = "github.com" ->
            <<"g", "i", "t", "h", "u", "b", ".", "c", "o", "m">>
      [] t = "http://localhost?" ->
            <<"h", "t", "t", "p", ":", "/", "/", "l", "o", "c", "a", "l", "h", "o", "s", "t", "?">>
      [] t = "generic" ->
            <<"g", "e", "n", "e", "r", "i", "c">>
      [] t = "https://" ->
            <<"h", "t", "t", "p", "s", ":", "/", "/">>
      [] t = "example.com" ->
            <<"e", "x", "a", "m", "p", "l", "e", ".", "c", "o", "m">>
      [] t = "site.test" ->
            <<"s", "i", "t", "e", ".", "t", "e", "s", "t">>
      [] t = "redir.test" ->
            <<"r", "e", "d", "i", "r", ".", "t", "e", "s", "t">>
      [] t = "target.test" ->
            <<"t", "a", "r", "g", "e", "t", ".", "t", "e", "s", "t">>
      [] t = "b.test" ->
            <<"b", ".", "t", "e", "s", "t">>
      [] t = "shop.test" ->
            <<"s", "h", "o", "p", ".", "t", "e", "s", "t">>
      [] t = "utm_" ->
            <<"u", "t", "m", "_">>
      [] t = "foo" ->
            <<"f", "o", "o">>
      [] t = "bar" ->
            <<"b", "a", "r">>
      [] t = "keep" ->
            <<"k", "e", "e", "p">>
      [] t = "ref" ->
            <<"r", "e", "f">>
      [] t = "track" ->
            <<"t", "r", "a", "c", "k">>
      [] t = "u=" ->
            <<"u", "=">>
      [] t = "test" ->
            <<"t", "e", "s", "t">>
      [] t = "example" ->
            <<"e", "x", "a", "m", "p", "l", "e">>
      [] t = "redir" ->
            <<"r", "e", "d", "i", "r">>
      [] t = "/go" ->
            <<"/", "g", "o">>
      [] t = "/" ->
            <<"/">>
      [] t = "/o/r" ->
            <<"/", "o", "/", "r">>
      [] t = "/o/r/b" ->
            <<"/", "o", "/", "r", "/", "b">>
      [] t = "utm_source=test" ->
            <<"u", "t", "m", "_", "s", "o", "u", "r", "c", "e", "=", "t", "e", "s", "t">>
      [] t = "foo=bar" ->
            <<"f", "o", "o", "=", "b", "a", "r">>
      [] t = "oq=1" ->
            <<"o", "q", "=", "1">>
      [] t = "tracking_id=9" ->
            <<"t", "r", "a", "c", "k", "i", "n", "g", "_", "i", "d", "=", "9">>
      [] t = "ref=5" ->
            <<"r", "e", "f", "=", "5">>
      [] t = "u=https%3A%2F%2Ftarget.test%2F%3Futm_source%3Dx" ->
            <<"u", "=", "h", "t", "t", "p", "s", "%", "3", "A", "%", "2", "F", "%", "2", "F", "t", "a", "r", "g", "e", "t", ".", "t", "e", "s", "t", "%", "2", "F", "%", "3", "F", "u", "t", "m", "_", "s", "o", "u", "r", "c", "e", "%", "3", "D", "x">>
      [] t = "u=https://target.test/?utm_source=x" ->
            <<"u", "=", "h", "t", "t", "p", "s", ":", "/", "/", "t", "a", "r", "g", "e", "t", ".", "t", "e", "s", "t", "/", "?", "u", "t", "m", "_", "s", "o", "u", "r", "c", "e", "=", "x">>
      [] t = "next=https://b.test/?utm_x=1" ->
            <<"n", "e", "x", "t", "=", "h", "t", "t", "p", "s", ":", "/", "/", "b", ".", "t", "e", "s", "t", "/", "?", "u", "t", "m", "_", "x", "=", "1">>
      [] t = "bit.ly" ->
            <<"b", "i", "t", ".", "l", "y">>
      [] t = "tinyurl.com" ->
            <<"t", "i", "n", "y", "u", "r", "l", ".", "c", "o", "m">>
      [] t = "t.co" ->
            <<"t", ".", "c", "o">>
      [] t = "goo.gl" ->
            <<"g", "o", "o", ".", "g", "l">>
      [] t = "rebrand.ly" ->
            <<"r", "e", "b", "r", "a", "n", "d", ".", "l", "y">>
      [] t = "buff.ly" ->
            <<"b", "u", "f", "f", ".", "l", "y">>
      [] t = "is.gd" ->
            <<"i", "s", ".", "g", "d">>
      [] t = "ow.ly" ->
            <<"o", "w", ".", "l", "y">>
      [] t = "t.me" ->
            <<"t", ".", "m", "e">>
      [] t = "shorturl.at" ->
            <<"s", "h", "o", "r", "t", "u", "r", "l", ".", "a", "t">>
      [] t = "reddit.com" ->
            <<"r", "e", "d", "d", "i", "t", ".", "c", "o", "m">>
      [] t = "/a" ->
            <<"/", "a">>
      [] t = "/r/x" ->
            <<"/", "r", "/", "x">>
      [] t = "www." ->
            <<"w", "w", "w", ".">>
      [] t = "/BIT.LY" ->
            <<"/", "B", "I", "T", ".", "L", "Y">>
      [] t = "ref=bit.ly" ->
            <<"r", "e", "f", "=", "b", "i", "t", ".", "l", "y">>
      [] t = "password" ->
            <<"p", "a", "s", "s", "w", "o", "r", "d">>
      [] t = "password=s3cret" ->
            <<"p", "a", "s", "s", "w", "o", "r", "d", "=", "s", "3", "c", "r", "e", "t">>
      [] t = "[REDACTED PASSWORD]" ->
            <<"[", "R", "E", "D", "A", "C", "T", "E", "D", " ", "P", "A", "S", "S", "W", "O", "R", "D", "]">>
      [] t = "frag" ->
            <<"f", "r", "a", "g">>
      [] t = "utm_x=1" ->
            <<"u", "t", "m", "_", "x", "=", "1">>
      [] t = "k=v" ->
            <<"k", "=", "v">>
      [] t = "shop" ->
            <<"s", "h", "o", "p">>
      [] t = "redirector" ->
            <<"r", "e", "d", "i", "r", "e", "c", "t", "o", "r">>
      [] t = "github" ->
            <<"g", "i", "t", "h", "u", "b">>
      [] t = "examples" ->
            <<"e", "x", "a", "m", "p", "l", "e", "s">>
      [] t = "/ref=" ->
            <<"/", "r", "e", "f", "=">>
      [] t = "x://y" ->
            <<"x", ":", "/", "/", "y">>
      [] t = "a.test" ->
            <<"a", ".", "t", "e", "s", "t">>
      [] t = "b.test/" ->
            <<"b", ".", "t", "e", "s", "t", "/">>
      [] t = "u=https://github.com/o/r/b" ->
            <<"u", "=", "h", "t", "t", "p", "s", ":", "/", "/", "g", "i", "t", "h", "u", "b", ".", "c", "o", "m", "/", "o", "/", "r", "/", "b">>
      [] t = "u=https://redir.test/go?u=https://b.test/" ->
            <<"u", "=", "h", "t", "t", "p", "s", ":", "/", "/", "r", "e", "d", "i", "r", ".", "t", "e", "s", "t", "/", "g", "o", "?", "u", "=", "h", "t", "t", "p", "s", ":", "/", "/", "b", ".", "t", "e", "s", "t", "/">>
      [] t = "tracker" ->
            <<"t", "r", "a", "c", "k", "e", "r">>

SchemeChars == Letters \cup Digits \cup { "+", "-", "." }

SpecialSchemes == { Str("http"), Str("https") }

\* is_invalid_domain_char, restricted to the modelled characters.
ForbiddenHostChars == { " ", "#", "%", "/", ":", "?" }

FindNotInFrom(s, cs, from) ==
    LET hits == { i \in from .. Len(s) : s[i] \notin cs }
    IN  IF hits = {} THEN Len(s) + 1 ELSE CHOOSE i \in hits : \A j \in hits : i <= j

\* The query and the fragment that follow the path: rest is empty or starts
\* with ? or #.
QueryOf(rest) ==
    IF StartsWith(rest, << "?" >>)
    THEN Some(SubSeq(rest, 2, FindAnyFrom(rest, {"#"}, 1) - 1))
    ELSE None

FragmentOf(rest) ==
    LET h == FindAnyFrom(rest, {"#"}, 1)
    IN  IF h <= Len(rest) THEN Some(Drop(rest, h)) ELSE None

DefaultPort(scheme) ==
    IF scheme = Str("http") THEN <<"8", "0">> ELSE <<"4", "4", "3">>

\* The parsed URL, given its parts as the parser has cut them: the text after
\* the authority is the path followed by the query and the fragment.
UrlOfParts(scheme, slashes, host, port, after, pEnd) ==
    [ scheme |-> scheme, slashes |-> slashes, host |-> host, port |-> port,
      path |-> IF pEnd = 1 /\ scheme \in SpecialSchemes THEN << "/" >> ELSE Take(after, pEnd - 1),
      query |-> QueryOf(Drop(after, pEnd - 1)),
      fragment |-> FragmentOf(Drop(after, pEnd - 1)) ]

\* Host and port of http and https: the host is percent-decoded and must be
\* non-empty and free of forbidden characters, the port is digits, and the
\* scheme's default port is dropped.
SpecialHostPort(scheme, host, port, after) ==
    IF \/ host = << >>
       \/ \E i \in 1 .. Len(host) : host[i] \in ForbiddenHostChars
       \/ \E i \in 1 .. Len(port) : port[i] \notin Digits
    THEN None
    ELSE Some(UrlOfParts(scheme, TRUE, Some(host), IF port = DefaultPort(scheme) THEN << >> ELSE port,
                         after, FindAnyFrom(after, {"?", "#"}, 1)))

SpecialAuthority(scheme, authority, c, after) ==
    SpecialHostPort(scheme, PercentDecode(Take(authority, c - 1)), Drop(authority, c), after)

SpecialCut(scheme, r1, aEnd) ==
    SpecialAuthority(scheme, Take(r1, aEnd - 1), FindAnyFrom(Take(r1, aEnd - 1), {":"}, 1),
                     Drop(r1, aEnd - 1))

SpecialSlashes(scheme, r1) == SpecialCut(scheme, r1, FindAnyFrom(r1, {"/", "?", "#"}, 1))

\* Url::parse for http and https: any number of slashes after the colon, then
\* the authority up to / ? #, then a path that is never empty.
ParseSpecial(scheme, rest) ==
    SpecialSlashes(scheme, Drop(rest, FindNotInFrom(rest, {"/"}, 1) - 1))

\* Host and port of another scheme: the host is kept as written, and an empty
\* one is no host.
OtherHostPort(scheme, slashes, host, port, after) ==
    IF \/ \E i \in 1 .. Len(host) : host[i] \in (ForbiddenHostChars \ {"%"})
       \/ \E i \in 1 .. Len(port) : port[i] \notin Digits
    THEN None
    ELSE Some(UrlOfParts(scheme, slashes, IF host = << >> THEN None ELSE Some(host), port,
                         after, FindAnyFrom(after, {"?", "#"}, 1)))

OtherAuthority(scheme, slashes, authority, c, after) ==
    OtherHostPort(scheme, slashes, Take(authority, c - 1), Drop(authority, c), after)

OtherCut(scheme, slashes, r1, aEnd) ==
    OtherAuthority(scheme, slashes, Take(r1, aEnd - 1), FindAnyFrom(Take(r1, aEnd - 1), {":"}, 1),
                   Drop(r1, aEnd - 1))

\* Url::parse for any other scheme: with "//" an authority, otherwise a path
\* without a host.
ParseOther(scheme, rest) ==
    IF StartsWith(rest, << "/", "/" >>)
    THEN OtherCut(scheme, TRUE, Drop(rest, 2), FindAnyFrom(Drop(rest, 2), {"/", "?", "#"}, 1))
    ELSE OtherCut(scheme, FALSE, rest, 1)

ParseScheme(s, i) ==
    IF i > Len(s) \/ i = 1 \/ s[i] # ":" \/ s[1] \notin Letters THEN None
    ELSE IF Take(s, i - 1) \in SpecialSchemes THEN ParseSpecial(Take(s, i - 1), Drop(s, i))
    ELSE ParseOther(Take(s, i - 1), Drop(s, i))

\* Url::parse without a base: the text must start with a scheme and a colon.
ParseUrl(s) == ParseScheme(s, FindNotInFrom(s, SchemeChars, 1))

\* Url::to_string
UrlToString(u) ==
    u.scheme \o << ":" >>
    \o (IF u.slashes THEN << "/", "/" >> ELSE << >>)
    \o (IF IsSome(u.host) THEN Unwrap(u.host) ELSE << >>)
    \o (IF u.port # << >> THEN << ":" >> \o u.port ELSE << >>)
    \o u.path
    \o (IF IsSome(u.query) THEN << "?" >> \o Unwrap(u.query) ELSE << >>)
    \o (IF IsSome(u.fragment) THEN << "#" >> \o Unwrap(u.fragment) ELSE << >>)

\* Url::path_segments: the path after its leading slash, split at slashes;
\* None for a URL whose path does not start with a slash.
PathSegments(u) ==
    IF StartsWith(u.path, << "/" >>) THEN Some(Split(Drop(u.path, 1), "/")) ELSE None

SetQuery(u, q) == [ u EXCEPT !.query = q ]

SetFragment(u, f) == [ u EXCEPT !.fragment = f ]

SetPath(u, p) == [ u EXCEPT !.path = p ]

(***************************************************************************)
(* Compiled matchers (regex::Regex).  The modelled patterns are            *)
(*     [^] pre [ [^stop]* ]      with the run optionally capture group 1:  *)
(* an optional start anchor, a literal text, and an optional greedy run of *)
(* characters outside stop (stop = {} is ".*").  A pattern string that     *)
(* does not compile is the record with ok = FALSE.                         *)
(***************************************************************************)
Pattern(pre, anchored, run, group, stop) ==
    [ ok |-> TRUE, pre |-> pre, anchored |-> anchored, run |-> run, group |-> group,
      stop |-> stop ]

Lit(pre) == Pattern(pre, FALSE, FALSE, FALSE, {})

BadPattern == [ ok |-> FALSE ]

\* Regex::new
RegexNew(s) == IF s.ok THEN Some(s) ELSE None

\* Start of the leftmost match of re in s at or after from; 0 when none.
MatchStart(re, s, from) ==
    IF re.anchored
    THEN (IF from = 1 /\ StartsWith(s, re.pre) THEN 1 ELSE 0)
    ELSE FindFrom(s, re.pre, from)

\* One past the last character of the match of re that starts at m.
MatchEnd(re, s, m) ==
    IF re.run THEN FindAnyFrom(s, re.stop, m + Len(re.pre)) ELSE m + Len(re.pre)

\* Regex::is_match (a search, not a full match)
IsMatch(re, s) == MatchStart(re, s, 1) # 0

GroupAt(re, s, m) ==
    IF m = 0 \/ ~re.group THEN None
    ELSE Some(SubSeq(s, m + Len(re.pre), MatchEnd(re, s, m) - 1))

\* Regex::captures(s) followed by caps.get(1): the text of group 1 of the
\* leftmost match, None without a match or without a group.
CaptureGroup1(re, s) == GroupAt(re, s, MatchStart(re, s, 1))

\* Regex::replace_all(s, ""): every non-overlapping match, left to right, is
\* deleted; after an empty match the search moves on by one character.
RECURSIVE DeleteMatchesFrom(_, _, _)
RECURSIVE DeleteMatchAt(_, _, _, _, _)
DeleteMatchAt(re, s, from, m, e) ==
    IF e = m
    THEN (IF m > Len(s) THEN SubSeq(s, from, Len(s))
          ELSE SubSeq(s, from, m) \o DeleteMatchesFrom(re, s, m + 1))
    ELSE SubSeq(s, from, m - 1) \o DeleteMatchesFrom(re, s, e)

DeleteMatchFound(re, s, from, m) ==
    IF m = 0 THEN SubSeq(s, from, Len(s))
    ELSE DeleteMatchAt(re, s, from, m, MatchEnd(re, s, m))

DeleteMatchesFrom(re, s, from) ==
    IF from > Len(s) + 1 THEN << >>
    ELSE DeleteMatchFound(re, s, from, MatchStart(re, s, from))

ReplaceAll(re, s) == DeleteMatchesFrom(re, s, 1)

AnyMatch(res, s) == \E i \in 1 .. Len(res) : IsMatch(res[i], s)

(***************************************************************************)
(* clean_url_in_place on a given provider list.  The guard taken at the    *)
(* top of a pass is held until the pass ends, so the recursive calls made  *)
(* inside a pass see the list of the enclosing pass; they are computed     *)
(* here in full.  A pass state st is                                       *)
(*   url      the URL being rewritten                                      *)
(*   from     the URL the invocation was called with                       *)
(*   changed  the function's result so far                                 *)
(*   cur      current_iteration_changed                                    *)
(*   reads    providers.read() calls made by recursive invocations         *)
(*   bodies   the largest number of loop bodies run by one recursive       *)
(*            invocation                                                   *)
(*   depth    the deepest chain of recursive invocations below this one    *)
(*   longer   a recursive invocation was given a URL whose serialization   *)
(*            is longer than the part (parameter value, fragment) it was   *)
(*            built from                                                   *)
(*   events   what the providers did in the pass, as << kind, name >>:     *)
(*            "active", "stale", "exception", "redirect", "params",        *)
(*            "nested", "fragment", "raw", "rawfail"                       *)
(***************************************************************************)
MAX_ITERATIONS == 5

Max(a, b) == IF a >= b THEN a ELSE b

RECURSIVE CleanUrlInPlace(_, _)
RECURSIVE FilterParams(_, _, _, _)
RECURSIVE PassFrom(_, _, _, _)
RECURSIVE LoopFrom(_, _, _)

\* Lines 376-388: a kept pair whose value was given to a recursive invocation
\* with result r.
KeepCleaned(acc, key, value, r) ==
    [ acc EXCEPT !.new_query = Append(@, << key, IF r.changed THEN UrlToString(r.url) ELSE value >>),
                 !.changed = @ \/ r.changed,
                 !.reads = @ + r.reads,
                 !.bodies = Max(@, r.bodies),
                 !.depth = Max(@, r.depth + 1),
                 !.longer = @ \/ r.longer \/ Len(UrlToString(r.from)) > Len(value) ]

\* Lines 376-388: a kept pair; inner is the value parsed as a URL when the
\* value starts with "http".
KeepPair(provs, acc, key, value, inner) ==
    IF IsSome(inner)
    THEN KeepCleaned(acc, key, value, CleanUrlInPlace(provs, Unwrap(inner)))
    ELSE [ acc EXCEPT !.new_query = Append(@, << key, value >>) ]

\* A variant of FilterPair that leaves the referral_marketing matchers out.
FilterPairRulesOnly(provs, provider, acc, key, value) ==
    IF AnyMatch(provider.rules, key)
    THEN [ acc EXCEPT !.params_removed = TRUE ]
    ELSE KeepPair(provs, acc, key, value,
                  IF StartsWith(value, Str("http")) THEN ParseUrl(value) ELSE None)

\* A variant of FilterPair that hands every kept value that parses as a URL
\* to the recursive invocation, whatever it starts with.
FilterPairAnyValue(provs, provider, acc, key, value) ==
    IF AnyMatch(provider.rules, key) \/ AnyMatch(provider.referral_marketing, key)
    THEN [ acc EXCEPT !.params_removed = TRUE ]
    ELSE KeepPair(provs, acc, key, value, ParseUrl(value))

\* Lines 358-390: one query pair.
FilterPair(provs, provider, acc, key, value) ==
    IF AnyMatch(provider.rules, key) \/ AnyMatch(provider.referral_marketing, key)
    THEN [ acc EXCEPT !.params_removed = TRUE ]
    ELSE KeepPair(provs, acc, key, value,
                  IF StartsWith(value, Str("http")) THEN ParseUrl(value) ELSE None)

\* Lines 357-391: the loop over the query pairs of one provider.  acc holds
\* new_query (as pairs), params_removed, and the flags of the recursive calls.
FilterParams(provs, provider, pairs, acc) ==
    IF pairs = << >> THEN acc
    ELSE FilterParams(provs, provider, Tail(pairs),
                      FilterPair(provs, provider, acc, Head(pairs)[1], Head(pairs)[2]))

\* Lines 393-401
WriteQuery(provider, st, acc) ==
    [ st EXCEPT
        !.events = @ \cup (IF acc.params_removed THEN { << "params", provider.name >> } ELSE {})
                     \cup (IF acc.changed THEN { << "nested", provider.name >> } ELSE {}),
        !.url = IF ~acc.params_removed THEN @
                ELSE IF acc.new_query # << >> THEN SetQuery(@, Some(SerializePairs(acc.new_query)))
                ELSE SetQuery(@, None),
        !.changed = @ \/ acc.changed \/ acc.params_removed,
        !.cur = @ \/ acc.params_removed,
        !.reads = @ + acc.reads,
        !.bodies = Max(@, acc.bodies),
        !.depth = Max(@, acc.depth),
        !.longer = @ \/ acc.longer ]

\* Lines 350-402: query parameters of one provider.
HandleQuery(provs, provider, st) ==
    IF ~IsSome(st.url.query) THEN st
    ELSE WriteQuery(provider, st, FilterParams(provs, provider, QueryPairs(Unwrap(st.url.query)),
                        [ new_query |-> << >>, params_removed |-> FALSE, changed |-> FALSE,
                          reads |-> 0, bodies |-> 0, depth |-> 0, longer |-> FALSE ]))

\* A variant of WriteFragment that leaves the fragment in place when no
\* parameter survives.
WriteFragmentUnlessEmpty(provider, st, r) ==
    [ st EXCEPT
        !.events = @ \cup (IF r.changed THEN { << "fragment", provider.name >> } ELSE {}),
        !.url = IF r.changed /\ IsSome(r.url.query) THEN SetFragment(@, r.url.query) ELSE @,
        !.changed = @ \/ r.changed,
        !.cur = @ \/ r.changed,
        !.reads = @ + r.reads,
        !.bodies = Max(@, r.bodies),
        !.depth = Max(@, r.depth + 1),
        !.longer = @ \/ r.longer \/ Len(UrlToString(r.from)) > Len(Unwrap(st.url.fragment)) ]

\* Lines 410-418
WriteFragment(provider, st, r) ==
    [ st EXCEPT
        !.events = @ \cup (IF r.changed THEN { << "fragment", provider.name >> } ELSE {}),
        !.url = IF r.changed THEN SetFragment(@, r.url.query) ELSE @,
        !.changed = @ \/ r.changed,
        !.cur = @ \/ r.changed,
        !.reads = @ + r.reads,
        !.bodies = Max(@, r.bodies),
        !.depth = Max(@, r.depth + 1),
        !.longer = @ \/ r.longer \/ Len(UrlToString(r.from)) > Len(Unwrap(st.url.fragment)) ]

CleanFragment(provs, provider, st, frag_url) ==
    IF ~IsSome(frag_url) THEN st
    ELSE WriteFragment(provider, st, CleanUrlInPlace(provs, Unwrap(frag_url)))

\* Lines 404-421: a fragment that looks like a query string.
HandleFragment(provs, provider, st) ==
    IF ~IsSome(st.url.fragment) \/ ~Contains(Unwrap(st.url.fragment), << "=" >>) THEN st
    ELSE CleanFragment(provs, provider, st, ParseUrl(Str("http://localhost?") \o Unwrap(st.url.fragment)))

\* A variant of ApplyRawRules that applies the last rule of the list first.
RECURSIVE ApplyRawRulesReversed(_, _)
ApplyRawRulesReversed(raw_rules, str) ==
    IF raw_rules = << >> THEN str
    ELSE ReplaceAll(Head(raw_rules), ApplyRawRulesReversed(Tail(raw_rules), str))

\* Lines 424-432: the raw rules applied in turn to the serialized URL.
RECURSIVE ApplyRawRules(_, _)
ApplyRawRules(raw_rules, str) ==
    IF raw_rules = << >> THEN str
    ELSE ApplyRawRules(Tail(raw_rules), ReplaceAll(Head(raw_rules), str))

\* Lines 434-440
WriteRaw(provider, st, raw_changed, new_url) ==
    IF raw_changed /\ IsSome(new_url)
    THEN [ st EXCEPT !.url = Unwrap(new_url), !.changed = TRUE, !.cur = TRUE,
                     !.events = @ \cup { << "raw", provider.name >> } ]
    ELSE IF raw_changed
    THEN [ st EXCEPT !.events = @ \cup { << "rawfail", provider.name >> } ]
    ELSE st

ParseRaw(provider, st, before, intermediate_url_str) ==
    WriteRaw(provider, st, intermediate_url_str # before, ParseUrl(intermediate_url_str))

\* Lines 423-440
HandleRawRules(provider, st) ==
    ParseRaw(provider, st, UrlToString(st.url), ApplyRawRules(provider.raw_rules, UrlToString(st.url)))

\* Lines 334-346: the target of the first redirection matcher whose group 1
\* parses as a URL; None when there is none.
RECURSIVE Redirect(_, _)
RedirectTo(redirections, url_str, new_url) ==
    IF IsSome(new_url) THEN new_url ELSE Redirect(Tail(redirections), url_str)

RedirectGroup(redirections, url_str, m) ==
    RedirectTo(redirections, url_str, IF IsSome(m) THEN ParseUrl(Unwrap(m)) ELSE None)

Redirect(redirections, url_str) ==
    IF redirections = << >> THEN None
    ELSE RedirectGroup(redirections, url_str, CaptureGroup1(Head(redirections), url_str))

\* Lines 319: a provider takes part in a pass if its pattern matches the
\* serialization taken at the top of the pass, or if it is named generic.
Active(provider, url_str) ==
    IsMatch(provider.url_pattern, url_str) \/ provider.name = Str("generic")

\* A variant of Rewrite that goes on to the parameters, the fragment and
\* the raw rules after a redirection.
RewriteOn(provs, provider, st, target) ==
    HandleRawRules(provider, HandleFragment(provs, provider, HandleQuery(provs, provider,
        IF IsSome(target)
        THEN [ st EXCEPT !.url = Unwrap(target), !.changed = TRUE, !.cur = TRUE,
                         !.events = @ \cup { << "redirect", provider.name >> } ]
        ELSE st)))

\* Lines 333-442: the turn of an active provider without a matching
\* exception; target is the outcome of its redirections.
Rewrite(provs, provider, st, target) ==
    IF IsSome(target)
    THEN [ st EXCEPT !.url = Unwrap(target), !.changed = TRUE, !.cur = TRUE,
                     !.events = @ \cup { << "redirect", provider.name >> } ]
    ELSE HandleRawRules(provider, HandleFragment(provs, provider, HandleQuery(provs, provider, st)))

\* Line 319 as seen from the URL: the provider is entered ("active"), and
\* "stale" when it is entered through a url_pattern that matched the
\* serialization of line 312 and does not match the URL as it is now.
Entered(provider, st) ==
    { << "active", provider.name >> }
    \cup (IF ~IsMatch(provider.url_pattern, UrlToString(st.url)) /\ provider.name # Str("generic")
          THEN { << "stale", provider.name >> } ELSE {})

\* A variant of ProviderTurn that goes on past a matching exception.
ProviderTurnPastException(provs, provider, st, url_str) ==
    IF ~Active(provider, url_str) THEN st
    ELSE Rewrite(provs, provider, [ st EXCEPT !.events = @ \cup Entered(provider, st) ],
                 Redirect(provider.redirections, url_str))

\* Lines 317-442: one provider's turn within a pass.
ProviderTurn(provs, provider, st, url_str) ==
    IF ~Active(provider, url_str) THEN st
    ELSE IF AnyMatch(provider.exceptions, url_str)
    THEN [ st EXCEPT !.events = @ \cup Entered(provider, st) \cup { << "exception", provider.name >> } ]
    ELSE Rewrite(provs, provider, [ st EXCEPT !.events = @ \cup Entered(provider, st) ],
                 Redirect(provider.redirections, url_str))

\* Lines 317-442: the providers from index i on, in store order.
PassFrom(provs, i, st, url_str) ==
    IF i > Len(provs) THEN st
    ELSE PassFrom(provs, i + 1, ProviderTurn(provs, provs[i], st, url_str), url_str)

\* Lines 312-443: one body of the outer loop.
Pass(provs, st) ==
    PassFrom(provs, 1, [ st EXCEPT !.cur = FALSE, !.events = {} ], UrlToString(st.url))

\* Lines 445-449
LoopNext(provs, after, iterations) ==
    IF ~after.cur THEN [ after EXCEPT !.iters = iterations + 1 ]
    ELSE LoopFrom(provs, after, iterations + 1)

\* Lines 311-449: the outer loop from the given iteration count on.
LoopFrom(provs, st, iterations) ==
    IF ~(iterations < MAX_ITERATIONS) THEN [ st EXCEPT !.iters = iterations ]
    ELSE LoopNext(provs, Pass(provs, [ st EXCEPT !.reads = @ + 1 ]), iterations)

Finished(st) == [ st EXCEPT !.bodies = Max(@, st.iters) ]

\* Lines 306-451: a whole invocation; iters counts its loop bodies.
CleanUrlInPlace(provs, url) ==
    Finished(LoopFrom(provs, [ url |-> url, from |-> url, changed |-> FALSE, cur |-> FALSE,
                               reads |-> 0, bodies |-> 0, iters |-> 0, depth |-> 0,
                               longer |-> FALSE, events |-> {} ], 0))

(***************************************************************************)
(* sanitize: the steps that touch only the call's own URL.                 *)
(***************************************************************************)
CustomOther == <<"C", "u", "s", "t", "o", "m", "/", "O", "t", "h", "e", "r">>

GitHubRepoRoot ==
    <<"G", "i", "t", "H", "u", "b", " ", "(", "R", "e", "p", "o", " ", "R", "o", "o", "t", ")">>

\* Lines 9-18 and 156-162: redact_sensitive.  Of the five patterns, the
\* password pattern (?i)password\s*[:=]\s*[^\s]+ is the one that matches
\* modelled texts, which hold no white space between the name and the value,
\* no "@", no dotted quad and no word of 20 or 40 characters.
RECURSIVE RedactSensitive(_)
RedactSensitive(text) ==
    LET low == ToLowercase(text)
        at == FindFrom(low, Str("password"), 1)
        hits == { i \in at .. (Len(text) - 9) :
                    /\ at # 0
                    /\ SubSeq(low, i, i + 7) = Str("password")
                    /\ text[i + 8] \in { ":", "=" }
                    /\ text[i + 9] # " " }
        first == CHOOSE i \in hits : \A j \in hits : i <= j
    IN  IF hits = {} THEN text
        ELSE Take(text, first - 1)
             \o Str("[REDACTED PASSWORD]")
             \o RedactSensitive(Drop(text, FindAnyFrom(text, {" "}, first + 9) - 1))

\* Lines 192-195
Normalize(text) ==
    IF ~Contains(text, Str("://")) /\ ~StartsWith(text, Str("mailto:"))
    THEN Str("http://") \o text
    ELSE text

\* Lines 198-203
HostIgnored(url, ignored_domains) ==
    /\ IsSome(url.host)
    /\ \E i \in 1 .. Len(ignored_domains) : Contains(Unwrap(url.host), ignored_domains[i])

\* clean_github_url without the set_fragment(None) of line 180.
TruncateKeepsFragment(url, new_path) ==
    IF url.path # new_path
    THEN [ url |-> SetQuery(SetPath(url, new_path), None), changed |-> TRUE ]
    ELSE [ url |-> url, changed |-> FALSE ]

\* Lines 172-181
TruncateTo(url, new_path) ==
    IF url.path # new_path
    THEN [ url |-> SetFragment(SetQuery(SetPath(url, new_path), None), None), changed |-> TRUE ]
    ELSE [ url |-> url, changed |-> FALSE ]

RepoRoot(url, path_segments) ==
    IF Len(path_segments) > 2
    THEN TruncateTo(url, << "/" >> \o path_segments[1] \o << "/" >> \o path_segments[2])
    ELSE [ url |-> url, changed |-> FALSE ]

\* Lines 164-186: clean_github_url; the URL after the call and the result.
CleanGithubUrl(url) ==
    IF url.host = Some(Str("github.com"))
    THEN RepoRoot(url, IF IsSome(PathSegments(url)) THEN Unwrap(PathSegments(url)) ELSE << >>)
    ELSE [ url |-> url, changed |-> FALSE ]

\* Lines 220-227: no custom rule's pattern occurs in the key.
CustomKeeps(custom_rules, key) ==
    \A i \in 1 .. Len(custom_rules) : ~Contains(key, custom_rules[i].pattern)

\* Lines 234-240 and 281-288: the query is rewritten when the pass dropped a
\* pair, and removed when it kept none.
WriteKept(url, query_pairs, kept) ==
    [ url |-> IF Len(kept) = Len(query_pairs) THEN url
              ELSE IF kept # << >> THEN SetQuery(url, Some(SerializePairs(kept)))
              ELSE SetQuery(url, None),
      changed |-> Len(kept) # Len(query_pairs) ]

CustomFilter(url, custom_rules, query_pairs) ==
    WriteKept(url, query_pairs,
              SelectSeq(query_pairs, LAMBDA kv : CustomKeeps(custom_rules, kv[1])))

\* Lines 211-241: the custom-rule pass.
CustomPass(url, custom_rules) ==
    IF ~IsSome(url.query) THEN [ url |-> url, changed |-> FALSE ]
    ELSE CustomFilter(url, custom_rules, QueryPairs(Unwrap(url.query)))

\* The name of the last provider among hits, not the first.
LastOf(provs, hits) ==
    IF hits = {} THEN None
    ELSE Some(provs[CHOOSE i \in hits : \A j \in hits : i >= j].name)

FirstOf(provs, hits) ==
    IF hits = {} THEN None
    ELSE Some(provs[CHOOSE i \in hits : \A j \in hits : i <= j].name)

\* Lines 243-254: the name of the first provider whose pattern matches the
\* input text as given; None when no pattern matches.
IdentifyProvider(provs, text) ==
    FirstOf(provs, { i \in 1 .. Len(provs) : IsMatch(provs[i].url_pattern, text) })

\* Lines 267-269
AggressiveTrackers ==
    { <<"g", "s", "_", "l", "c", "r", "p">>, <<"o", "q">>,
      <<"s", "o", "u", "r", "c", "e", "i", "d">>, <<"c", "l", "i", "e", "n", "t">>,
      <<"b", "i", "h">>, <<"b", "i", "w">>, <<"v", "e", "d">>, <<"e", "i">>,
      <<"i", "f", "l", "s", "i", "g">>, <<"a", "d", "g", "r", "p", "i", "d">>,
      <<"n", "w">>, <<"m", "a", "t", "c", "h", "t", "y", "p", "e">> }

\* The fallback pass with a tracker list that lacks "oq".
AggressiveFilterWithoutOq(url, query_pairs) ==
    WriteKept(url, query_pairs,
              SelectSeq(query_pairs, LAMBDA kv : kv[1] \notin AggressiveTrackers \ { << "o", "q" >> }))

AggressiveFilter(url, query_pairs) ==
    WriteKept(url, query_pairs,
              SelectSeq(query_pairs, LAMBDA kv : kv[1] \notin AggressiveTrackers))

\* Lines 259-289: the fallback pass.
AggressiveFallback(url) ==
    IF ~IsSome(url.query) THEN [ url |-> url, changed |-> FALSE ]
    ELSE AggressiveFilter(url, QueryPairs(Unwrap(url.query)))

(***************************************************************************)
(* refresh: parsing and compiling a ruleset document.                      *)
(***************************************************************************)
\* Lines 22-37: a document entry with serde's defaults for absent fields.
RawProvider(name, urlPattern, rules, exceptions, rawRules, redirections, referralMarketing) ==
    [ name |-> name, urlPattern |-> urlPattern, rules |-> rules, exceptions |-> exceptions,
      rawRules |-> rawRules, redirections |-> redirections,
      referralMarketing |-> referralMarketing, forceRedirection |-> FALSE ]

\* String::is_empty on a pattern string
IsEmptyPattern(s) == s.ok /\ s.pre = << >> /\ ~s.anchored /\ ~s.run

\* Lines 97-99
CompileList(list) == SelectSeq(list, LAMBDA x : IsSome(RegexNew(x)))

\* A variant of CompileProvider that skips a provider when one of its rule
\* strings does not compile.
CompileProviderStrict(provider) ==
    IF IsEmptyPattern(provider.urlPattern) \/ ~IsSome(RegexNew(provider.urlPattern))
       \/ CompileList(provider.rules) # provider.rules
    THEN None
    ELSE Some([ name |-> provider.name,
                url_pattern |-> Unwrap(RegexNew(provider.urlPattern)),
                rules |-> CompileList(provider.rules),
                exceptions |-> CompileList(provider.exceptions),
                raw_rules |-> CompileList(provider.rawRules),
                redirections |-> CompileList(provider.redirections),
                referral_marketing |-> CompileList(provider.referralMarketing),
                force_redirection |-> provider.forceRedirection ])

\* Lines 88-110: the compiled provider of one document entry; None for an
\* entry that is skipped.
CompileProvider(provider) ==
    IF IsEmptyPattern(provider.urlPattern) \/ ~IsSome(RegexNew(provider.urlPattern)) THEN None
    ELSE Some([ name |-> provider.name,
                url_pattern |-> Unwrap(RegexNew(provider.urlPattern)),
                rules |-> CompileList(provider.rules),
                exceptions |-> CompileList(provider.exceptions),
                raw_rules |-> CompileList(provider.rawRules),
                redirections |-> CompileList(provider.redirections),
                referral_marketing |-> CompileList(provider.referralMarketing),
                force_redirection |-> provider.forceRedirection ])

\* Lines 85-111: the lists the loop can build from a document's entries; the
\* entries of a HashMap are visited in an order the program does not choose.
RECURSIVE CompiledLists(_)
CompiledLists(entries) ==
    IF entries = {} THEN { << >> }
    ELSE UNION { { (IF IsSome(CompileProvider(e)) THEN << Unwrap(CompileProvider(e)) >> ELSE << >>) \o rest :
                   rest \in CompiledLists(entries \ {e}) } : e \in entries }

(***************************************************************************)
(* Inputs.  Documents, input texts and requesters are built from small     *)
(* pools; the bounds say how much of each pool a run uses.                 *)
(***************************************************************************)
Dots == Pattern(<< >>, FALSE, TRUE, FALSE, {})

Starts(pre) == Pattern(pre, FALSE, TRUE, FALSE, {})

GroupTo(pre, stop) == Pattern(pre, FALSE, TRUE, TRUE, stop)

RunTo(pre, stop) == Pattern(pre, FALSE, TRUE, FALSE, stop)

\* "generic": ".*", rules utm_.*, one rule that does not compile
GenericEntry ==
    RawProvider(Str("generic"), Dots, << Starts(Str("utm_")), BadPattern >>, << >>, << >>, << >>, << >>)

\* "redir": redir\.test, redirections u=([^&#]*)
RedirEntry ==
    RawProvider(Str("redir"), Lit(Str("redir.test")), << >>, << >>, << >>,
                << GroupTo(Str("u="), {"&", "#"}) >>, << >>)

\* "example": example\.com, rules foo, exceptions keep, referralMarketing ref
ExampleEntry ==
    RawProvider(Str("example"), Lit(Str("example.com")), << Lit(Str("foo")) >>,
                << Lit(Str("keep")) >>, << >>, << >>, << Lit(Str("ref")) >>)

\* "shop": ^https://shop\.test, rawRules /ref=[^/?#]* and ://shop\.test/zap
ShopEntry ==
    RawProvider(Str("shop"), Pattern(Str("https://") \o Str("shop.test"), TRUE, FALSE, FALSE, {}),
                << >>, << >>,
                << RunTo(Str("/ref="), {"/", "?", "#"}),
                   Lit(Str("://") \o Str("shop.test") \o << "/", "z", "a", "p" >>) >>,
                << >>, << >>)

\* "redirector": a\.test, rules ref, redirections ^(.*): the capture is the
\* URL itself
LoopEntry ==
    RawProvider(Str("redirector"), Lit(Str("a.test")), << Lit(Str("ref")) >>, << >>, << >>,
                << Pattern(<< >>, TRUE, TRUE, TRUE, {}) >>, << >>)

\* entries that refresh skips: an empty and an uncompilable urlPattern
EmptyEntry == RawProvider(Str("tracker"), Lit(<< >>), << Dots >>, << >>, << >>, << >>, << >>)

BrokenEntry == RawProvider(Str("github"), BadPattern, << Dots >>, << >>, << >>, << >>, << >>)

DocumentPool ==
    << { GenericEntry },
       { GenericEntry, RedirEntry },
       { },
       { ExampleEntry, RedirEntry, LoopEntry },
       { ShopEntry, GenericEntry, BrokenEntry, EmptyEntry },
       { ExampleEntry, EmptyEntry } >>

NumDocuments == 5

Documents == { DocumentPool[i] : i \in 1 .. (IF NumDocuments < Len(DocumentPool) THEN NumDocuments ELSE Len(DocumentPool)) }

\* The stores a successful refresh can leave.
Stores == UNION { CompiledLists(d) : d \in Documents }

\* Input texts: a base followed by at most MaxParts parts, each a query
\* parameter of the pool (in pool order) or a fragment; and a few texts of
\* their own.
BasePool ==
    << Str("https://") \o Str("example.com") \o Str("/"),
       Str("site.test") \o Str("/"),
       Str("https://") \o Str("redir.test") \o Str("/go"),
       Str("https://") \o Str("github.com") \o Str("/o/r/b") >>

ParamPool ==
    << Str("utm_source=test"),
       Str("foo=bar"),
       Str("oq=1"),
       Str("tracking_id=9"),
       Str("u=https%3A%2F%2Ftarget.test%2F%3Futm_source%3Dx"),
       Str("next=https://b.test/?utm_x=1"),
       Str("u=https://target.test/?utm_source=x"),
       Str("ref=5") >>

FragmentPool ==
    << Str("frag"),
       Str("utm_x=1") \o << "&" >> \o Str("k=v"),
       Str("next=https://b.test/?utm_x=1"),
       Str("u=https://target.test/?utm_source=x") >>

ExtraTexts ==
    { Str("http://"),
      Str("https://") \o Str("a.test") \o Str("/"),
      Str("https://") \o Str("shop.test") \o Str("/ref=") \o Str("/o/r"),
      Str("https://") \o Str("github.com") \o Str("/o/r") \o << "?" >> \o Str("foo=bar"),
      Str("https://") \o Str("example.com") \o Str("/") \o << "?" >> \o Str("keep") \o << "=", "1", "&" >>
          \o Str("oq=1") \o << "&" >> \o Str("foo=bar"),
      << >>,
      Str("mailto:"),
      Str("https://") \o Str("example.com") \o Str("/") \o << "?" >> \o Str("password=s3cret")
          \o << "&" >> \o Str("utm_source=test"),
      Str("https://") \o Str("redir.test") \o Str("/go") \o << "?" >> \o Str("keep") \o << "=", "1", "&" >>
          \o Str("u=") \o Str("https://") \o Str("example.com") \o Str("/") \o << "?" >> \o Str("foo=bar"),
      Str("https://") \o Str("redir.test") \o Str("/go") \o << "?" >> \o Str("u=") \o Str("https://")
          \o Str("target.test") \o << "/", "?" >> \o Str("foo=bar") \o << "&", "x", "=" >> \o Str("example.com"),
      Str("https://") \o Str("a.test") \o Str("/") \o << "?" >> \o Str("ref=5"),
      Str("https://") \o Str("redir.test") \o Str("/go") \o << "?" >>
          \o Str("u=https://redir.test/go?u=https://b.test/"),
      Str("https://") \o Str("example.com") \o Str("/") \o << "?", "n", "e", "x", "t", "=" >> \o Str("x://y"),
      Str("https://") \o Str("example.com") \o Str("/") \o << "#" >> \o Str("utm_x=1"),
      Str("https://") \o Str("shop.test") \o << "/", "z", "a", "p" >>,
      Str("https://") \o Str("shop.test") \o Str("/ref=") \o << "/", "z", "a", "p" >> }

MaxParts == 2

RECURSIVE JoinParams(_)
JoinParams(ps) ==
    IF ps = << >> THEN << >>
    ELSE Head(ps) \o (IF Len(ps) > 1 THEN << "&" >> \o JoinParams(Tail(ps)) ELSE << >>)

RECURSIVE ParamsOf(_)
ParamsOf(c) ==
    IF c = {} THEN << >>
    ELSE LET i == CHOOSE i \in c : \A j \in c : i <= j
         IN  << ParamPool[i] >> \o ParamsOf(c \ {i})

QueryOfChoice(c) == IF c = {} THEN << >> ELSE << "?" >> \o JoinParams(ParamsOf(c))

\* The query-and-fragment tails of at most MaxParts parts.
Tails ==
    { QueryOfChoice(c) : c \in { c \in SUBSET (1 .. Len(ParamPool)) : Cardinality(c) <= MaxParts } }
    \cup { QueryOfChoice(c) \o << "#" >> \o FragmentPool[f] :
             c \in { c \in SUBSET (1 .. Len(ParamPool)) : Cardinality(c) + 1 <= MaxParts },
             f \in 1 .. Len(FragmentPool) }

Texts == { BasePool[b] \o tl : b \in 1 .. Len(BasePool), tl \in Tails } \cup ExtraTexts

\* Requesters: the custom rules and the ignored domains that the persistence
\* layer passes in with a call.
CustomRule(pattern) == [ pattern |-> pattern ]

Requesters ==
    { [ custom_rules |-> << >>, ignored_domains |-> << >> ],
      [ custom_rules |-> << CustomRule(Str("track")), CustomRule(Str("utm_")) >>,
        ignored_domains |-> << Str("example") >> ],
      [ custom_rules |-> << >>, ignored_domains |-> << Str("shop"), Str("github") >> ] }

(***************************************************************************)
(* The engine as a state machine.                                          *)
(*                                                                         *)
(* providers is the store behind the RwLock (line 58).  readers[t] counts  *)
(* the read guards thread t holds; writer is "none" or "waiting" (the      *)
(* write guard itself is taken, used and dropped in one step, lines        *)
(* 114-121).  std::sync::RwLock leaves open whether a waiting writer       *)
(* blocks new readers: writerFirst is the policy of the build.             *)
(*                                                                         *)
(* A sanitize call is cut at its lock operations: what a thread does       *)
(* between two of them touches only its own URL.                           *)
(***************************************************************************)
VARIABLES providers, readers, writer, writerFirst, call, task, expansion,
          db, req, out

vars == << providers, readers, writer, writerFirst, call, task, expansion,
          db, req, out >>

engine == << providers, readers, writer, writerFirst, call, task, expansion >>

NumThreads == 2

Threads == 1 .. NumThreads

MaxCalls == 2

MaxRefreshes == 1

IdleCall ==
    [ pc |-> "idle", n |-> 0, text |-> << >>, custom_rules |-> << >>, ignored_domains |-> << >>,
      url |-> None, provider_name |-> CustomOther, github_changed |-> FALSE,
      custom_changed |-> FALSE, changed |-> FALSE, iterations |-> 0, nested |-> 0,
      result |-> None, seen |-> {}, passes |-> 0, bodies |-> 0, depth |-> 0, longer |-> FALSE,
      events |-> << >>, log |-> {} ]

IdleTask ==
    [ pc |-> "idle", n |-> 0, resp |-> None, data |-> {}, compiled_providers |-> << >>,
      result |-> "none", before |-> << >>, process |-> "running", failures |-> 0 ]

\* RwLock::read returns at once unless the policy makes it wait for a writer.
CanRead == ~(writerFirst /\ writer = "waiting")

NewCall(n, text, custom_rules, ignored_domains) ==
    [ IdleCall EXCEPT !.n = n, !.text = text, !.custom_rules = custom_rules,
                      !.ignored_domains = ignored_domains,
                      !.log = { << "text", text >>, << "url", RedactSensitive(text) >> } ]

\* A variant of Prepared that labels a call "Custom" when the custom-rule
\* pass removed a parameter.
PreparedNamesCustom(c0, gh, cu) ==
    [ c0 EXCEPT !.pc = "identify", !.url = cu.url,
                !.provider_name = IF gh.changed THEN GitHubRepoRoot
                                  ELSE IF cu.changed THEN << "C", "u", "s", "t", "o", "m" >>
                                  ELSE CustomOther,
                !.github_changed = gh.changed,
                !.custom_changed = cu.changed ]

\* Lines 205-241: the GitHub step gh and the custom-rule pass cu are done.
Prepared(c0, gh, cu) ==
    [ c0 EXCEPT !.pc = "identify", !.url = cu.url,
                !.provider_name = IF gh.changed THEN GitHubRepoRoot ELSE CustomOther,
                !.github_changed = gh.changed,
                !.custom_changed = cu.changed,
                !.log = @ \cup (IF IsSome(gh.url.query)
                                THEN { << "param", QueryPairs(Unwrap(gh.url.query))[i][1] >> :
                                         i \in { i \in DOMAIN QueryPairs(Unwrap(gh.url.query)) :
                                                   ~CustomKeeps(c0.custom_rules,
                                                                QueryPairs(Unwrap(gh.url.query))[i][1]) } }
                                ELSE {}) ]

Prepare(c0, gh) == Prepared(c0, gh, CustomPass(gh.url, c0.custom_rules))

\* A variant of Parsed that ignores a host only when it equals an entry.
ParsedExactHost(c0, parsed) ==
    IF ~IsSome(parsed)
       \/ (\E i \in 1 .. Len(c0.ignored_domains) :
             Unwrap(parsed).host = Some(c0.ignored_domains[i]))
    THEN [ c0 EXCEPT !.pc = "done" ]
    ELSE Prepare(c0, CleanGithubUrl(Unwrap(parsed)))

\* A variant of Parsed that answers a text that does not parse with the
\* text itself.
ParsedEchoes(c0, parsed) ==
    IF ~IsSome(parsed)
    THEN [ c0 EXCEPT !.pc = "done", !.result = Some(<< c0.text, CustomOther >>) ]
    ELSE IF HostIgnored(Unwrap(parsed), c0.ignored_domains)
    THEN [ c0 EXCEPT !.pc = "done" ]
    ELSE Prepare(c0, CleanGithubUrl(Unwrap(parsed)))

\* Lines 197-241
Parsed(c0, parsed) ==
    IF ~IsSome(parsed) THEN [ c0 EXCEPT !.pc = "done" ]
    ELSE IF HostIgnored(Unwrap(parsed), c0.ignored_domains)
    THEN [ c0 EXCEPT !.pc = "done", !.log = @ \cup { << "host", Unwrap(Unwrap(parsed).host) >> } ]
    ELSE Prepare(c0, CleanGithubUrl(Unwrap(parsed)))

\* Lines 189-241: sanitize up to the provider identification.
Begin(t, n, text, custom_rules, ignored_domains) ==
    call' = [ call EXCEPT ![t] = Parsed(NewCall(n, text, custom_rules, ignored_domains),
                                        ParseUrl(Normalize(text))) ]

\* The bot calls sanitize for a URL of a message (src/src/bot.rs:233); the
\* text comes from pool, the custom rules and ignored domains from requesters.
Sanitize(t, pool, requesters) ==
    /\ task.process = "running"
    /\ call[t].pc = "idle"
    /\ \E text \in pool, r \in requesters : Begin(t, 1, text, r.custom_rules, r.ignored_domains)
    /\ UNCHANGED << providers, readers, writer, writerFirst, task, expansion, db, req, out >>

\* A cleaned URL is sanitized again with the same arguments.
SanitizeAgain(t) ==
    /\ call[t].pc = "done"
    /\ IsSome(call[t].result)
    /\ call[t].n < MaxCalls
    /\ Begin(t, call[t].n + 1, Unwrap(call[t].result)[1], call[t].custom_rules,
             call[t].ignored_domains)
    /\ UNCHANGED << providers, readers, writer, writerFirst, task, expansion, db, req, out >>

Identified(c, provs, hit) ==
    [ c EXCEPT !.pc = "pass",
               !.provider_name = IF IsSome(hit) THEN Unwrap(hit) ELSE @,
               !.seen = @ \cup { provs },
               !.log = @ \cup (IF IsSome(hit) THEN { << "provider", Unwrap(hit) >> } ELSE {}) ]

\* Lines 243-254: the label, under a read guard of its own.
Identify(t) ==
    /\ call[t].pc = "identify"
    /\ CanRead
    /\ call' = [ call EXCEPT ![t] = Identified(@, providers, IdentifyProvider(providers, call[t].text)) ]
    /\ UNCHANGED << providers, readers, writer, writerFirst, task, expansion, db, req, out >>

\* The pass that thread t runs on the store as it is now.
PassOf(t) ==
    Pass(providers, [ url |-> call[t].url, from |-> call[t].url, changed |-> call[t].changed,
                      cur |-> FALSE, reads |-> 0, bodies |-> call[t].bodies, iters |-> 0,
                      depth |-> call[t].depth, longer |-> call[t].longer, events |-> {} ])

PassBegun(c, provs, nested) ==
    [ c EXCEPT !.pc = IF nested > 0 THEN "nested" ELSE "endpass",
               !.nested = nested,
               !.passes = @ + 1,
               !.seen = @ \cup { provs } ]

\* A variant of BeginPass whose loop condition is off by one.
BeginPassLate(t) ==
    /\ call[t].pc = "pass"
    /\ call[t].iterations <= MAX_ITERATIONS
    /\ CanRead
    /\ readers' = [ readers EXCEPT ![t] = @ + 1 ]
    /\ call' = [ call EXCEPT ![t] = PassBegun(@, providers, PassOf(t).reads) ]
    /\ UNCHANGED << providers, writer, writerFirst, task, expansion, db, req, out >>

\* Lines 311-315: the top of a loop body takes the read guard.
BeginPass(t) ==
    /\ call[t].pc = "pass"
    /\ call[t].iterations < MAX_ITERATIONS
    /\ CanRead
    /\ readers' = [ readers EXCEPT ![t] = @ + 1 ]
    /\ call' = [ call EXCEPT ![t] = PassBegun(@, providers, PassOf(t).reads) ]
    /\ UNCHANGED << providers, writer, writerFirst, task, expansion, db, req, out >>

\* Lines 380, 410 into 315: a recursive invocation takes the read guard again
\* while the guard of the enclosing pass is held.
NestedRead(t) ==
    /\ call[t].pc = "nested"
    /\ CanRead
    /\ call' = [ call EXCEPT ![t].nested = @ - 1,
                             ![t].pc = IF call[t].nested = 1 THEN "endpass" ELSE "nested" ]
    /\ UNCHANGED << providers, readers, writer, writerFirst, task, expansion, db, req, out >>

\* A variant of PassEnded that goes on after a body that set changed.
PassEndedOnChanged(c, r) ==
    [ c EXCEPT !.url = r.url,
               !.changed = r.changed,
               !.bodies = r.bodies,
               !.depth = r.depth,
               !.longer = r.longer,
               !.events = Append(@, r.events),
               !.iterations = IF r.changed THEN @ + 1 ELSE @,
               !.pc = IF r.changed THEN "pass" ELSE "fallback" ]

\* Lines 445-449: the loop goes on after a body that changed something, up to
\* the cap.
PassEnded(c, r) ==
    [ c EXCEPT !.url = r.url,
               !.changed = r.changed,
               !.bodies = r.bodies,
               !.depth = r.depth,
               !.longer = r.longer,
               !.events = Append(@, r.events),
               !.iterations = IF r.cur THEN @ + 1 ELSE @,
               !.pc = IF r.cur THEN "pass" ELSE "fallback" ]

\* Lines 317-449: the rest of the loop body; the guard is dropped at its end.
EndPass(t) ==
    /\ call[t].pc = "endpass"
    /\ readers' = [ readers EXCEPT ![t] = @ - 1 ]
    /\ call' = [ call EXCEPT ![t] = PassEnded(@, PassOf(t)) ]
    /\ UNCHANGED << providers, writer, writerFirst, task, expansion, db, req, out >>

\* Line 311: the loop ends when the cap is reached.
ExitLoop(t) ==
    /\ call[t].pc = "pass"
    /\ ~(call[t].iterations < MAX_ITERATIONS)
    /\ call' = [ call EXCEPT ![t].pc = "fallback" ]
    /\ UNCHANGED << providers, readers, writer, writerFirst, task, expansion, db, req, out >>

\* Lines 291-302
Returned(c, fb) ==
    [ c EXCEPT !.pc = "done",
               !.url = fb.url,
               !.changed = @ \/ fb.changed,
               !.result = IF c.changed \/ fb.changed \/ c.custom_changed \/ c.github_changed
                          THEN Some(<< UrlToString(fb.url), c.provider_name >>)
                          ELSE None,
               !.log = @ \cup (IF IsSome(c.url.query)
                               THEN { << "param", QueryPairs(Unwrap(c.url.query))[i][1] >> :
                                        i \in { i \in DOMAIN QueryPairs(Unwrap(c.url.query)) :
                                                  QueryPairs(Unwrap(c.url.query))[i][1]
                                                      \in AggressiveTrackers } }
                               ELSE {})
                         \cup (IF c.changed \/ fb.changed \/ c.custom_changed \/ c.github_changed
                               THEN { << "original", RedactSensitive(c.text) >>,
                                      << "cleaned", UrlToString(fb.url) >>,
                                      << "provider", c.provider_name >> }
                               ELSE {}) ]

\* Lines 259-302: the fallback pass and the result.
Finish(t) ==
    /\ call[t].pc = "fallback"
    /\ call' = [ call EXCEPT ![t] = Returned(@, AggressiveFallback(call[t].url)) ]
    /\ UNCHANGED << providers, readers, writer, writerFirst, task, expansion, db, req, out >>

(***************************************************************************)
(* The refresh task (lines 76-125, run from src/src/main.rs:33-42).        *)
(***************************************************************************)
\* What the fetch can return: a document, a text that is not JSON, or JSON
\* without the providers mapping.
Responses ==
    { [ kind |-> "document", providers |-> DocumentPool[2] ] }
    \cup { [ kind |-> "not_json", providers |-> {} ], [ kind |-> "no_providers", providers |-> {} ] }

\* src/src/main.rs:36-37 and lines 77-81: a tick of the interval calls
\* refresh, at most max times; the fetch fails (the error is returned and
\* logged, and the loop waits for its next tick), or returns one of the
\* responses.
RefreshFetchUpTo(responses, max) ==
    /\ task.process # "exited"
    /\ task.pc = "idle"
    /\ task.n < max
    /\ \/ task' = [ task EXCEPT !.n = @ + 1, !.result = "err", !.before = providers,
                                !.failures = @ + 1 ]
       \/ \E resp \in responses :
            task' = [ task EXCEPT !.n = @ + 1, !.pc = "parse", !.resp = Some(resp),
                                  !.result = "none", !.before = providers,
                                  !.data = {}, !.compiled_providers = << >> ]
    /\ UNCHANGED << providers, readers, writer, writerFirst, call, expansion, db, req, out >>

RefreshFetchFrom(responses) == RefreshFetchUpTo(responses, MaxRefreshes)

RefreshFetch == RefreshFetchFrom(Responses)

\* A variant of RefreshParse that empties the store when the document is
\* malformed.
RefreshParseClears ==
    /\ task.pc = "parse"
    /\ IF Unwrap(task.resp).kind = "document"
       THEN /\ task' = [ task EXCEPT !.pc = "compile", !.data = Unwrap(task.resp).providers ]
            /\ UNCHANGED providers
       ELSE /\ task' = [ task EXCEPT !.pc = "idle", !.result = "err", !.failures = @ + 1 ]
            /\ providers' = << >>
    /\ UNCHANGED << readers, writer, writerFirst, call, expansion, db, req, out >>

\* A variant of RefreshParse in which a malformed document ends the refresh
\* task.
RefreshParseStops ==
    /\ task.pc = "parse"
    /\ IF Unwrap(task.resp).kind = "document"
       THEN task' = [ task EXCEPT !.pc = "compile", !.data = Unwrap(task.resp).providers ]
       ELSE task' = [ task EXCEPT !.pc = "stopped", !.result = "err", !.failures = @ + 1 ]
    /\ UNCHANGED << providers, readers, writer, writerFirst, call, expansion, db, req, out >>

\* Line 83: serde_json::from_str; a malformed document is an error.
RefreshParse ==
    /\ task.pc = "parse"
    /\ IF Unwrap(task.resp).kind = "document"
       THEN task' = [ task EXCEPT !.pc = "compile", !.data = Unwrap(task.resp).providers ]
       ELSE task' = [ task EXCEPT !.pc = "idle", !.result = "err", !.failures = @ + 1 ]
    /\ UNCHANGED << providers, readers, writer, writerFirst, call, expansion, db, req, out >>

\* Lines 87-111: one entry of the document, in the map's iteration order, is
\* compiled and pushed onto the local list, or skipped.
Compiled(list, p) == IF IsSome(p) THEN Append(list, Unwrap(p)) ELSE list

\* A variant of RefreshCompile that pushes each compiled provider into the
\* store itself.
RefreshCompileInPlace ==
    /\ task.pc = "compile"
    /\ \A t \in Threads : readers[t] = 0
    /\ \E e \in task.data :
         /\ task' = [ task EXCEPT !.data = @ \ {e},
                                  !.compiled_providers = Compiled(@, CompileProvider(e)) ]
         /\ providers' = Compiled(task.compiled_providers, CompileProvider(e))
    /\ UNCHANGED << readers, writer, writerFirst, call, expansion, db, req, out >>

RefreshCompile ==
    /\ task.pc = "compile"
    /\ \E e \in task.data :
         task' = [ task EXCEPT !.data = @ \ {e},
                               !.compiled_providers = Compiled(@, CompileProvider(e)) ]
    /\ UNCHANGED << providers, readers, writer, writerFirst, call, expansion, db, req, out >>

NoReaders == \A t \in Threads : readers[t] = 0

\* Lines 113-124: RwLock::write waits until no read guard is held; then the
\* store is replaced by the local list and the guard is dropped.
RefreshWrite ==
    /\ task.pc = "compile"
    /\ task.data = {}
    /\ IF NoReaders
       THEN /\ providers' = task.compiled_providers
            /\ writer' = "none"
            /\ task' = [ task EXCEPT !.pc = "idle", !.result = "ok" ]
       ELSE /\ writer = "none"
            /\ writer' = "waiting"
            /\ UNCHANGED << providers, task >>
    /\ UNCHANGED << readers, writerFirst, call, expansion, db, req, out >>

(***************************************************************************)
(* expand_url (lines 127-154).  The HEAD request is answered by the        *)
(* network: each URL of the chain answers with a redirect or with a final  *)
(* response, or the request fails.                                         *)
(***************************************************************************)
\* Line 138
Shorteners ==
    << Str("bit.ly"), Str("tinyurl.com"), Str("t.co"), Str("goo.gl"), Str("rebrand.ly"),
       Str("buff.ly"), Str("is.gd"), Str("ow.ly"), Str("t.me"), Str("shorturl.at") >>

\* Lines 137-140: a shortener name occurs in the lower-cased input.
IsShortener(input_url) ==
    \E i \in 1 .. Len(Shorteners) : Contains(ToLowercase(input_url), Shorteners[i])

\* Line 130: redirect::Policy::limited(5)
RedirectLimit == 5

\* A call of expand_url: where it is, the URL the request is at, the
\* redirects followed, the requests sent to the network, the error and the
\* final URL of the response, and the returned string.
IdleExpansion ==
    [ pc |-> "idle", input_url |-> << >>, at |-> None, hops |-> 0, requests |-> 0,
      error |-> "none", final_url |-> None, result |-> None ]

\* Lines 144-153: the string returned for a response with the final URL
\* resp, or for no response.
ExpandReturned(e, resp) ==
    [ e EXCEPT !.pc = "done",
               !.final_url = resp,
               !.result = IF IsSome(resp) /\ Unwrap(resp) # e.input_url
                          THEN Some(Unwrap(resp))
                          ELSE Some(e.input_url) ]

\* A variant of ExpandFailed that returns the URL the request had reached.
ExpandFailedAtLast(e, error) ==
    [ e EXCEPT !.pc = "done",
               !.error = error,
               !.result = IF IsSome(e.at) THEN Some(UrlToString(Unwrap(e.at)))
                          ELSE Some(e.input_url) ]

\* Lines 133 and 144: the client was not built, or send returned Err.
ExpandFailed(e, error) == [ ExpandReturned(e, None) EXCEPT !.error = error ]

\* Line 144: client.head(input_url).send(); a text that is no http(s) URL
\* is refused before anything is sent.
Sent(e, parsed) ==
    IF ~IsSome(parsed) \/ Unwrap(parsed).scheme \notin SpecialSchemes
    THEN ExpandFailed(e, "request")
    ELSE [ e EXCEPT !.pc = "request", !.at = parsed, !.requests = 1 ]

\* Lines 136-153 with a client.
Started(e) ==
    IF IsShortener(e.input_url)
    THEN Sent(e, ParseUrl(e.input_url))
    ELSE ExpandReturned(e, None)

\* The bot expands a URL of a message (src/src/bot.rs:228): the client is
\* not built, or the call runs up to the request.
ExpandUrl(pool) ==
    /\ expansion.pc = "idle"
    /\ \E input_url \in pool :
         \/ expansion' = ExpandFailed([ IdleExpansion EXCEPT !.input_url = input_url ], "build")
         \/ expansion' = Started([ IdleExpansion EXCEPT !.input_url = input_url ])
    /\ UNCHANGED << providers, readers, writer, writerFirst, call, task, db, req, out >>

\* The URL the request is at answers with a redirect: it is followed while
\* the policy allows, and is an error after that.
ResponseRedirect(locations) ==
    /\ expansion.pc = "request"
    /\ \E location \in locations :
         expansion' = IF expansion.hops < RedirectLimit
                      THEN [ expansion EXCEPT !.at = Some(location), !.hops = @ + 1,
                                              !.requests = @ + 1 ]
                      ELSE ExpandFailed(expansion, "redirects")
    /\ UNCHANGED << providers, readers, writer, writerFirst, call, task, db, req, out >>

\* Lines 144-150: the URL the request is at answers without a redirect;
\* resp.url() is that URL.
ResponseFinal ==
    /\ expansion.pc = "request"
    /\ expansion' = ExpandReturned(expansion, Some(UrlToString(Unwrap(expansion.at))))
    /\ UNCHANGED << providers, readers, writer, writerFirst, call, task, db, req, out >>

\* Lines 129 and 144: the connection fails, or the 10 seconds pass.
RequestFails ==
    /\ expansion.pc = "request"
    /\ \E error \in { "connect", "timeout" } : expansion' = ExpandFailed(expansion, error)
    /\ UNCHANGED << providers, readers, writer, writerFirst, call, task, db, req, out >>

(***************************************************************************)
(* The bot's message handler (bot.rs), the dashboard's requests (web.rs)   *)
(* and the tables they share (db.rs).  Every database call is one SQL      *)
(* statement and is one step; a handler is cut at its database calls, so   *)
(* that the bot and the dashboard interleave where the program's tasks do. *)
(***************************************************************************)
NumUsers == 2

\* Telegram users; the handler uses the id 0 for a message without sender.
Users == 1 .. NumUsers

\* The group chats the bot is a member of (their ids are negative).
GroupChats == { -1 }

Titles == { << "old" >>, << "new" >> }

DefaultUserConfig(user_id) ==
    [ user_id |-> user_id, enabled |-> 1, mode |-> "reply", cleaned_count |-> 0 ]

DefaultChatConfig(chat_id) ==
    [ chat_id |-> chat_id, title |-> None, enabled |-> 1, added_by |-> 0, mode |-> "default" ]

\* The tables user_configs and chat_configs (a row or none per key) and the
\* number of cleaned_links rows per user.
EmptyDb ==
    [ user_configs  |-> [ u \in { 0 } \cup Users |-> None ],
      chat_configs  |-> [ c \in GroupChats |-> None ],
      cleaned_links |-> [ u \in { 0 } \cup Users |-> 0 ] ]

get_user_config(d, user_id) ==
    IF IsSome(d.user_configs[user_id])
    THEN Unwrap(d.user_configs[user_id])
    ELSE DefaultUserConfig(user_id)

\* INSERT ... ON CONFLICT(user_id) DO UPDATE SET every column.
save_user_config(d, config) ==
    [ d EXCEPT !.user_configs[config.user_id] = Some(config) ]

\* UPDATE user_configs SET cleaned_count = cleaned_count + ? WHERE user_id = ?
increment_cleaned_count(d, user_id, amount) ==
    IF IsSome(d.user_configs[user_id])
    THEN [ d EXCEPT !.user_configs[user_id] =
               Some([ Unwrap(@) EXCEPT !.cleaned_count = @ + amount ]) ]
    ELSE d

log_cleaned_link(d, user_id) ==
    [ d EXCEPT !.cleaned_links[user_id] = @ + 1 ]

get_chat_config(d, chat_id) ==
    IF chat_id \in DOMAIN d.chat_configs THEN d.chat_configs[chat_id] ELSE None

get_chat_config_or_default(d, chat_id) ==
    IF IsSome(get_chat_config(d, chat_id))
    THEN Unwrap(get_chat_config(d, chat_id))
    ELSE DefaultChatConfig(chat_id)

\* INSERT ... ON CONFLICT(chat_id) DO UPDATE SET title, enabled, mode.
save_chat_config(d, config) ==
    IF IsSome(d.chat_configs[config.chat_id])
    THEN [ d EXCEPT !.chat_configs[config.chat_id] =
               Some([ Unwrap(@) EXCEPT !.title = config.title,
                                       !.enabled = config.enabled,
                                       !.mode = config.mode ]) ]
    ELSE [ d EXCEPT !.chat_configs[config.chat_id] = Some(config) ]

is_enabled(config) == config.enabled # 0

MaxMessages == 2

MaxRequests == 2

MaxCleaned == 2

NumSubscribers == 1

Subscribers == 1 .. NumSubscribers

NoMessage ==
    [ from |-> None, chat |-> 0, group |-> FALSE, title |-> None, command |-> "" ]

NoResponse == [ len |-> 0, listed |-> 0, truncated |-> FALSE, kind |-> "" ]

IdleBot ==
    [ pc |-> "idle", handled |-> 0, msg |-> NoMessage, user_id |-> 0,
      user_config |-> DefaultUserConfig(0), chat_config |-> DefaultChatConfig(0),
      chat_exists |-> FALSE, cleaned |-> 0, i |-> 0, response |-> NoResponse ]

IdleWeb ==
    [ pc |-> "idle", served |-> 0, handler |-> "", session |-> None, chat_id |-> 0,
      mode |-> "", enabled |-> FALSE,
      user_config |-> DefaultUserConfig(0), chat_config |-> DefaultChatConfig(0) ]

IdleAuth ==
    [ pc |-> "idle", params |-> [ fields |-> << >>, hash |-> None ], now |-> 0,
      verified |-> FALSE, session |-> None ]

IdleReq ==
    [ bot |-> IdleBot, web |-> IdleWeb, auth |-> IdleAuth,
      events |-> [ s \in Subscribers |-> [ open |-> FALSE, session |-> None, user_id |-> 0 ] ] ]

NoOutput ==
    [ received |-> [ s \in Subscribers |-> { } ] ]

\* html::escape writes "&amp;" for "&": four bytes more per ampersand (a
\* serialised URL holds none of the other escaped characters).
escape(url) == url.len + 4 * url.amps

\* The cleaned URLs of a message, by their length in bytes.
MessageUrls == { [ len |-> 40, amps |-> 1 ], [ len |-> 2000, amps |-> 0 ] }

\* The translated header lines (cleaned_for with the sender's name filled
\* in, cleaned_links), by their length; one ends with a newline, one not.
Headers == { [ len |-> 24, newline |-> TRUE ], [ len |-> 17, newline |-> FALSE ] }

MAX_MESSAGE_LENGTH == 4000

\* "... (truncated)"
TruncatedMarker == 15

RECURSIVE DeleteResponse(_, _, _)

\* Lines 284-291: the message that replaces a deleted one.
DeleteResponse(header, cleaned_urls, n) ==
    IF n = 0
    THEN [ len |-> header.len, listed |-> 0, truncated |-> FALSE, kind |-> "delete" ]
    ELSE LET rest == DeleteResponse(header, cleaned_urls, n - 1)
         IN  [ rest EXCEPT !.len = @ + 20 + 2 * escape(cleaned_urls[n]),
                           !.listed = @ + 1 ]

RECURSIVE ListEntries(_, _, _)

\* Lines 315-327: entries are added from cleaned_urls[i] on until one does
\* not fit.
ListEntries(response, cleaned_urls, i) ==
    IF i > Len(cleaned_urls)
    THEN response
    ELSE LET link_entry == 20 + 2 * escape(cleaned_urls[i])
         IN  IF response.len + link_entry > MAX_MESSAGE_LENGTH
             THEN [ response EXCEPT !.len = @ + TruncatedMarker, !.truncated = TRUE ]
             ELSE ListEntries([ response EXCEPT !.len = @ + link_entry, !.listed = @ + 1 ],
                              cleaned_urls, i + 1)

\* Lines 294-327: the reply to the message.
ReplyResponse(header, cleaned_urls) ==
    LET response == [ len       |-> IF header.newline THEN header.len ELSE header.len + 1,
                      listed    |-> 0,
                      truncated |-> FALSE,
                      kind      |-> "reply" ]
    IN  IF Len(cleaned_urls) = 1
        THEN LET link_entry == 15 + 2 * escape(cleaned_urls[1])
             IN  IF response.len + link_entry < MAX_MESSAGE_LENGTH
                 THEN [ response EXCEPT !.len = @ + link_entry, !.listed = 1 ]
                 ELSE response
        ELSE ListEntries(response, cleaned_urls, 1)

\* Lines 279-282.
ReplyMode(chat_config, user_config) ==
    IF chat_config.mode \in { "default", "" } THEN user_config.mode ELSE chat_config.mode

Messages ==
    { m \in [ from    : { None } \cup { Some(u) : u \in Users },
              chat    : GroupChats \cup Users,
              group   : BOOLEAN,
              title   : { None } \cup Titles,
              command : { "", "/stats" } ] :
        /\ m.group = (m.chat \in GroupChats)
        /\ m.group = IsSome(m.title)
        /\ ~ m.group => m.from = Some(m.chat) }

\* What sanitizing the URLs of a message can leave in cleaned_urls, for a
\* given number of them.
CleanedUrls(n) == [ 1 .. n -> MessageUrls ]

\* The handler returns.
Handled(bot) == [ IdleBot EXCEPT !.handled = bot.handled + 1 ]

\* handle_message, lines 39-48, up to the commands (lines 74-124).
BotReceive ==
    /\ req.bot.pc = "idle"
    /\ req.bot.handled < MaxMessages
    /\ \E msg \in Messages :
         LET user_id == IF IsSome(msg.from) THEN Unwrap(msg.from) ELSE 0
         IN  req' = [ req EXCEPT !.bot =
                        [ @ EXCEPT !.msg = msg, !.user_id = user_id,
                                   !.user_config = get_user_config(db, user_id),
                                   !.pc = IF msg.command = "/stats" THEN "stats" ELSE "chat" ] ]
    /\ UNCHANGED << engine, db, out >>

\* Lines 114-117: /stats answers with the cleaned_count read at line 44.
BotStats ==
    /\ req.bot.pc = "stats"
    /\ req' = [ req EXCEPT !.bot = Handled(req.bot) ]
    /\ UNCHANGED << engine, db, out >>

\* Lines 127-131.
BotLoadChat ==
    /\ req.bot.pc = "chat"
    /\ req' = [ req EXCEPT !.bot.chat_config = get_chat_config_or_default(db, req.bot.msg.chat),
                           !.bot.pc = IF req.bot.msg.group THEN "exists" ELSE "process" ]
    /\ UNCHANGED << engine, db, out >>

\* Lines 133-143.
BotCheckChat ==
    /\ req.bot.pc = "exists"
    /\ LET bot         == req.bot
           title       == bot.msg.title
           chat_exists == IsSome(get_chat_config(db, bot.msg.chat))
       IN  req' = [ req EXCEPT !.bot =
                      IF ~ chat_exists \/ bot.chat_config.title # title
                      THEN [ bot EXCEPT !.chat_exists = chat_exists,
                                        !.chat_config.title = title,
                                        !.chat_config.added_by =
                                            IF chat_exists THEN @ ELSE bot.user_id,
                                        !.pc = "save" ]
                      ELSE [ bot EXCEPT !.chat_exists = chat_exists, !.pc = "process" ] ]
    /\ UNCHANGED << engine, db, out >>

\* Line 144.
BotSaveChat ==
    /\ req.bot.pc = "save"
    /\ db' = save_chat_config(db, req.bot.chat_config)
    /\ req' = [ req EXCEPT !.bot.pc = "process" ]
    /\ UNCHANGED << engine, out >>

\* Lines 158-261: the handler returns when the context is disabled or when
\* no URL of the message was cleaned.  The state keeps the number of cleaned
\* URLs; what they are is first used at line 287 or 307.
BotProcess ==
    /\ req.bot.pc = "process"
    /\ \E cleaned \in 0 .. MaxCleaned :
         LET bot     == req.bot
             enabled == IF bot.msg.group
                        THEN is_enabled(bot.chat_config)
                        ELSE is_enabled(bot.user_config)
         IN  req' = [ req EXCEPT !.bot =
                        IF enabled /\ cleaned > 0
                        THEN [ bot EXCEPT !.cleaned = cleaned, !.pc = "count" ]
                        ELSE Handled(bot) ]
    /\ UNCHANGED << engine, db, out >>

\* Line 263.
BotIncrement ==
    /\ req.bot.pc = "count"
    /\ db' = increment_cleaned_count(db, req.bot.user_id, req.bot.cleaned)
    /\ req' = [ req EXCEPT !.bot.pc = "log" ]
    /\ UNCHANGED << engine, out >>

\* The events_handler loop of one subscriber (web.rs lines 457-467) yields
\* the events whose user_id is the subscriber's.
Yielded(subscriber, received, event) ==
    IF subscriber.open /\ event.user_id = subscriber.user_id
    THEN received \cup { event }
    ELSE received

\* Lines 264-277, one cleaned URL: a history row and an event.
BotLog ==
    /\ req.bot.pc = "log"
    /\ LET bot   == req.bot
           event == [ user_id |-> bot.user_id ]
       IN  /\ db' = log_cleaned_link(db, bot.user_id)
           /\ out' = [ out EXCEPT !.received =
                         [ s \in Subscribers |-> Yielded(req.events[s], out.received[s], event) ] ]
           /\ req' = [ req EXCEPT !.bot.i = @ + 1,
                                  !.bot.pc = IF bot.i + 1 = bot.cleaned
                                             THEN "reply" ELSE "log" ]
    /\ UNCHANGED engine

\* Lines 279-327: the response is built.  Deleting the message fails when
\* the bot may not delete in the chat.
BotReply ==
    /\ req.bot.pc = "reply"
    /\ \E header \in Headers, deleted \in BOOLEAN, cleaned_urls \in CleanedUrls(req.bot.cleaned) :
         LET bot  == req.bot
             mode == ReplyMode(bot.chat_config, bot.user_config)
         IN  req' = [ req EXCEPT !.bot.pc = "send",
                                 !.bot.response =
                                     IF mode = "delete" /\ deleted
                                     THEN DeleteResponse(header, cleaned_urls, Len(cleaned_urls))
                                     ELSE ReplyResponse(header, cleaned_urls) ]
    /\ UNCHANGED << engine, db, out >>

\* send_message at line 290 and at lines 332-351.
BotSend ==
    /\ req.bot.pc = "send"
    /\ req' = [ req EXCEPT !.bot = Handled(req.bot) ]
    /\ UNCHANGED << engine, db, out >>

Sessions == { None } \cup { Some(u) : u \in Users }

\* The handler answers with a redirect.
Served(web) == [ IdleWeb EXCEPT !.served = web.served + 1 ]

\* toggle_chat, web.rs lines 358-361: the session, the row, the owner check.
ToggleChat ==
    /\ req.web.pc = "idle"
    /\ req.web.served < MaxRequests
    /\ \E session \in Sessions, chat_id \in GroupChats :
         LET chat_config == get_chat_config_or_default(db, chat_id)
             web         == [ req.web EXCEPT !.handler = "toggle_chat", !.session = session,
                                             !.chat_id = chat_id ]
         IN  req' = [ req EXCEPT !.web =
                        IF IsSome(session) /\ chat_config.added_by = Unwrap(session)
                        THEN [ web EXCEPT !.pc = "save",
                                          !.chat_config =
                                              [ chat_config EXCEPT !.enabled =
                                                  IF chat_config.enabled = 0 THEN 1 ELSE 0 ] ]
                        ELSE Served(web) ]
    /\ UNCHANGED << engine, db, out >>

\* update_chat_mode, web.rs lines 193-197.
UpdateChatMode ==
    /\ req.web.pc = "idle"
    /\ req.web.served < MaxRequests
    /\ \E session \in Sessions, chat_id \in GroupChats, mode \in { "reply", "delete" } :
         LET chat_config == get_chat_config_or_default(db, chat_id)
             web         == [ req.web EXCEPT !.handler = "update_chat_mode",
                                             !.session = session, !.chat_id = chat_id,
                                             !.mode = mode ]
         IN  req' = [ req EXCEPT !.web =
                        IF IsSome(session) /\ chat_config.added_by = Unwrap(session)
                        THEN [ web EXCEPT !.pc = "save",
                                          !.chat_config = [ chat_config EXCEPT !.mode = mode ] ]
                        ELSE Served(web) ]
    /\ UNCHANGED << engine, db, out >>

\* save_chat_config at web.rs line 362 (toggle_chat) and line 197
\* (update_chat_mode).
SaveChat ==
    /\ req.web.pc = "save"
    /\ req.web.handler \in { "toggle_chat", "update_chat_mode" }
    /\ db' = save_chat_config(db, req.web.chat_config)
    /\ req' = [ req EXCEPT !.web = Served(req.web) ]
    /\ UNCHANGED << engine, out >>

\* update_config, web.rs lines 333-346: the session, the stored row, the
\* row built from the form.
UpdateConfig ==
    /\ req.web.pc = "idle"
    /\ req.web.served < MaxRequests
    /\ \E session \in Sessions, enabled \in BOOLEAN, mode \in { "reply", "delete" } :
         LET web == [ req.web EXCEPT !.handler = "update_config", !.session = session,
                                     !.enabled = enabled, !.mode = mode ]
         IN  req' = [ req EXCEPT !.web =
                        IF IsSome(session)
                        THEN LET user_config == get_user_config(db, Unwrap(session))
                             IN  [ web EXCEPT !.pc = "save",
                                       !.user_config =
                                           [ user_id       |-> Unwrap(session),
                                             enabled       |-> IF enabled THEN 1 ELSE 0,
                                             mode          |-> mode,
                                             cleaned_count |-> user_config.cleaned_count ] ]
                        ELSE Served(web) ]
    /\ UNCHANGED << engine, db, out >>

\* save_user_config at web.rs line 347.
SaveConfig ==
    /\ req.web.pc = "save"
    /\ req.web.handler = "update_config"
    /\ db' = save_user_config(db, req.web.user_config)
    /\ req' = [ req EXCEPT !.web = Served(req.web) ]
    /\ UNCHANGED << engine, out >>

\* events_handler, web.rs lines 445-455: a subscription under the id of the
\* session, or under 0 without a valid session.
Subscribe ==
    /\ \E s \in Subscribers, session \in Sessions :
         /\ ~ req.events[s].open
         /\ req' = [ req EXCEPT !.events[s] =
                       [ open    |-> TRUE,
                         session |-> session,
                         user_id |-> IF IsSome(session) THEN Unwrap(session) ELSE 0 ] ]
    /\ UNCHANGED << engine, db, out >>

(***************************************************************************)
(* The Telegram login (web.rs, auth_callback and verify_telegram_auth).    *)
(* The query parameters are a map from names to strings; the hash          *)
(* parameter is kept beside the others because its value is a digest.      *)
(* SHA-256 and HMAC-SHA256 are taken as injective: different inputs have   *)
(* different digests.                                                      *)
(***************************************************************************)
\* The bytes of the parameter names and values, in byte order.
ByteOrder ==
    << "\n", "+", "0", "1", "2", "3", "4", "5", "6", "7", "8", "9", "=", "E", "J", "_",
       "a", "d", "e", "f", "g", "h", "i", "l", "m", "n", "r", "s", "t", "u", "x" >>

ByteRank(c) == CHOOSE i \in 1 .. Len(ByteOrder) : ByteOrder[i] = c

RECURSIVE StrLess(_, _)

\* The order of String (Ord for str): byte by byte, a prefix first.
StrLess(a, b) ==
    IF b = << >> THEN FALSE
    ELSE IF a = << >> THEN TRUE
    ELSE IF a[1] # b[1] THEN ByteRank(a[1]) < ByteRank(b[1])
    ELSE StrLess(Tail(a), Tail(b))

RECURSIVE Sorted(_)

\* keys.sort(): the names in ascending order.
Sorted(keys) ==
    IF keys = { } THEN << >>
    ELSE LET least == CHOOSE k \in keys : \A other \in keys \ { k } : StrLess(k, other)
         IN  << least >> \o Sorted(keys \ { least })

RECURSIVE JoinLines(_)

\* join("\n")
JoinLines(lines) ==
    IF lines = << >> THEN << >>
    ELSE IF Len(lines) = 1 THEN lines[1]
    ELSE lines[1] \o << "\n" >> \o JoinLines(Tail(lines))

DigitChars == << "0", "1", "2", "3", "4", "5", "6", "7", "8", "9" >>

RECURSIVE DecimalValue(_)

DecimalValue(digits) ==
    IF digits = << >> THEN 0
    ELSE 10 * DecimalValue(SubSeq(digits, 1, Len(digits) - 1))
         + ((CHOOSE d \in 1 .. 10 : DigitChars[d] = digits[Len(digits)]) - 1)

\* The longest digit strings the model evaluates; the inputs are shorter.
MaxDigits == 9

\* str::parse for an unsigned integer: an optional "+" and at least one
\* digit, nothing else.
ParseUnsigned(s) ==
    LET digits == IF s # << >> /\ s[1] = "+" THEN Tail(s) ELSE s
    IN  IF digits = << >> \/ Len(digits) > MaxDigits
           \/ \E i \in 1 .. Len(digits) : digits[i] \notin Digits
        THEN None
        ELSE Some(DecimalValue(digits))

AllowedKeys ==
    { << "i", "d" >>,
      << "f", "i", "r", "s", "t", "_", "n", "a", "m", "e" >>,
      << "l", "a", "s", "t", "_", "n", "a", "m", "e" >>,
      << "u", "s", "e", "r", "n", "a", "m", "e" >>,
      << "p", "h", "o", "t", "o", "_", "u", "r", "l" >>,
      << "a", "u", "t", "h", "_", "d", "a", "t", "e" >> }

AuthDateKey == << "a", "u", "t", "h", "_", "d", "a", "t", "e" >>

FirstNameKey == << "f", "i", "r", "s", "t", "_", "n", "a", "m", "e" >>

IdKey == << "i", "d" >>

LangKey == << "l", "a", "n", "g" >>

Sha256(bytes) == << "sha256", bytes >>

HmacSha256(key, data) == [ key |-> key, data |-> data ]

\* hex::encode of a digest.
HexEncode(mac) == << "hex", mac >>

\* Lines 507-511: one "name=value" line per name, joined.
CheckString(fields, keys) ==
    JoinLines([ i \in 1 .. Len(keys) |-> keys[i] \o << "=" >> \o fields[keys[i]] ])

\* The check string over every parameter but hash, the unsigned ones too.
DataCheckStringOfAll(fields) == CheckString(fields, Sorted(DOMAIN fields))

\* Lines 500-511.
DataCheckString(fields) ==
    CheckString(fields, Sorted({ k \in DOMAIN fields : k \in AllowedKeys }))

\* Lines 481-498: FALSE when the date is refused.
Fresh(fields, now) ==
    IF AuthDateKey \in DOMAIN fields
    THEN LET auth_date == ParseUnsigned(fields[AuthDateKey])
         IN  IF IsSome(auth_date)
             THEN /\ ~ (Unwrap(auth_date) > now + 60)
                  /\ ~ ((IF now >= Unwrap(auth_date) THEN now - Unwrap(auth_date) ELSE 0) > 86400)
             ELSE TRUE
    ELSE TRUE

\* Lines 513-522.
HashMatches(params, token) ==
    HexEncode(HmacSha256(Sha256(token), DataCheckString(params.fields))) = Unwrap(params.hash)

verify_telegram_auth(params, token, now) ==
    /\ IsSome(params.hash)
    /\ Fresh(params.fields, now)
    /\ HashMatches(params, token)

\* The token of the bot and another one.
BotToken == << "t" >>

Tokens == { BotToken, << "x" >> }

\* The seconds since the epoch at the time of the request.
Nows == { 200000 }

FieldValues(k) ==
    CASE k = IdKey        -> { << "7" >>, << "0" >> }
      [] k = FirstNameKey -> { << "J" >>, << "E" >> }
      [] k = LangKey      -> { << "x" >> }
      [] k = AuthDateKey  ->
            { << "2", "0", "0", "0", "0", "0" >>, << "2", "0", "0", "0", "6", "0" >>,
              << "2", "0", "0", "0", "6", "1" >>, << "1", "1", "3", "6", "0", "0" >>,
              << "1", "1", "3", "5", "9", "9" >>, << "x" >>,
              << "1", "1", "3", "5", "9", "9", "\n" >> \o FirstNameKey \o << "=", "J" >> }

FieldKeys == { IdKey, FirstNameKey, LangKey, AuthDateKey }

FieldMaps ==
    UNION { { f \in [ keys -> UNION { FieldValues(k) : k \in keys } ] :
                \A k \in keys : f[k] \in FieldValues(k) } : keys \in SUBSET FieldKeys }

\* The hashes a request can carry for its fields: none, or the digest under
\* some token of some of its lines in ascending or in descending order.
Hashes(fields) ==
    { None } \cup
    { Some(HexEncode(HmacSha256(Sha256(token), data))) :
        token \in Tokens,
        data \in UNION { LET keys == Sorted(chosen)
                         IN  { CheckString(fields, keys),
                               CheckString(fields, [ i \in 1 .. Len(keys) |->
                                                       keys[Len(keys) + 1 - i] ]) } :
                         chosen \in SUBSET (DOMAIN fields) } }

\* auth_callback, lines 260-312: the session cookie is set for a verified
\* login whose id parses to a number other than 0.
\* The ids drawn carry no minus sign, so that parse::<i64> reads them as
\* parse::<u64> does.
AuthCallback ==
    /\ req.auth.pc = "request"
    /\ LET auth     == req.auth
           verified == verify_telegram_auth(auth.params, BotToken, auth.now)
           user_id  == IF IdKey \in DOMAIN auth.params.fields
                       THEN ParseUnsigned(auth.params.fields[IdKey])
                       ELSE None
       IN  req' = [ req EXCEPT !.auth =
                      [ auth EXCEPT !.pc = "done",
                                    !.verified = verified,
                                    !.session =
                                        IF verified /\ IsSome(user_id) /\ Unwrap(user_id) # 0
                                        THEN user_id ELSE None ] ]
    /\ UNCHANGED << engine, db, out >>

(***************************************************************************)
(* Specifications.                                                         *)
(***************************************************************************)
\* After construction (RuleEngine::new, lines 70-74) the store holds the
\* result of a refresh.
Init ==
    /\ providers \in Stores
    /\ readers = [ t \in Threads |-> 0 ]
    /\ writer = "none"
    /\ writerFirst = FALSE
    /\ call = [ t \in Threads |-> IdleCall ]
    /\ task = IdleTask
    /\ expansion = IdleExpansion
    /\ db = EmptyDb
    /\ req = IdleReq
    /\ out = NoOutput

\* One thread sanitizes texts, and its results again, while the store stays
\* as it is.
Next ==
    \/ Sanitize(1, Texts, Requesters)
    \/ SanitizeAgain(1)
    \/ Identify(1)
    \/ BeginPass(1)
    \/ NestedRead(1)
    \/ EndPass(1)
    \/ ExitLoop(1)
    \/ Finish(1)

Spec == Init /\ [][Next]_vars

\* The bot's threads sanitize while the refresh task runs.
ConcTexts ==
    { Str("https://") \o Str("example.com") \o Str("/") \o << "?" >> \o Str("utm_source=test"),
      Str("https://") \o Str("example.com") \o Str("/") \o << "#" >> \o Str("next=https://b.test/?utm_x=1") }

ConcRequesters == { [ custom_rules |-> << >>, ignored_domains |-> << >> ] }

InitConc ==
    /\ providers \in CompiledLists(DocumentPool[1])
    /\ readers = [ t \in Threads |-> 0 ]
    /\ writer = "none"
    /\ writerFirst \in BOOLEAN
    /\ call = [ t \in Threads |-> IdleCall ]
    /\ task = IdleTask
    /\ expansion = IdleExpansion
    /\ db = EmptyDb
    /\ req = IdleReq
    /\ out = NoOutput

NextConc ==
    \/ \E t \in Threads :
         \/ Sanitize(t, ConcTexts, ConcRequesters)
         \/ Identify(t)
         \/ BeginPass(t)
         \/ NestedRead(t)
         \/ EndPass(t)
         \/ ExitLoop(t)
         \/ Finish(t)
    \/ RefreshFetch
    \/ RefreshParse
    \/ RefreshCompile
    \/ RefreshWrite

SpecConc == InitConc /\ [][NextConc]_vars

\* The refresh task fetches any document of the pool, or a malformed one,
\* while one thread sanitizes.
AnyResponses ==
    { [ kind |-> "document", providers |-> d ] : d \in Documents }
    \cup { [ kind |-> "not_json", providers |-> {} ], [ kind |-> "no_providers", providers |-> {} ] }

InitRefresh ==
    /\ providers \in CompiledLists(DocumentPool[1]) \cup CompiledLists(DocumentPool[3])
    /\ readers = [ t \in Threads |-> 0 ]
    /\ writer = "none"
    /\ writerFirst \in BOOLEAN
    /\ call = [ t \in Threads |-> IdleCall ]
    /\ task = IdleTask
    /\ expansion = IdleExpansion
    /\ db = EmptyDb
    /\ req = IdleReq
    /\ out = NoOutput

NextRefresh ==
    \/ Sanitize(1, ConcTexts, ConcRequesters)
    \/ Identify(1)
    \/ BeginPass(1)
    \/ NestedRead(1)
    \/ EndPass(1)
    \/ ExitLoop(1)
    \/ Finish(1)
    \/ RefreshFetchFrom(AnyResponses)
    \/ RefreshParse
    \/ RefreshCompile
    \/ RefreshWrite

SpecRefresh == InitRefresh /\ [][NextRefresh]_vars

\* src/src/main.rs:18: RuleEngine::new has returned what its refresh
\* returned (lines 70-74); main goes on to spawn the bot and the refresh
\* task, or returns the error, which ends the process.
StartupDone ==
    /\ task.process = "starting"
    /\ task.pc = "idle"
    /\ task.n > 0
    /\ task' = [ task EXCEPT !.n = 0,
                             !.process = IF task.result = "ok" THEN "running" ELSE "exited" ]
    /\ UNCHANGED << providers, readers, writer, writerFirst, call, expansion, db, req, out >>

\* The process starts: new_lazy (lines 63-68) made an empty store and the
\* refresh of RuleEngine::new is about to run; the refresh task follows
\* once main has spawned it.
InitStart ==
    /\ providers = << >>
    /\ readers = [ t \in Threads |-> 0 ]
    /\ writer = "none"
    /\ writerFirst \in BOOLEAN
    /\ call = [ t \in Threads |-> IdleCall ]
    /\ task = [ IdleTask EXCEPT !.process = "starting" ]
    /\ expansion = IdleExpansion
    /\ db = EmptyDb
    /\ req = IdleReq
    /\ out = NoOutput

NextStart ==
    \/ RefreshFetchFrom(AnyResponses)
    \/ RefreshParse
    \/ RefreshCompile
    \/ RefreshWrite
    \/ StartupDone
    \/ Sanitize(1, ConcTexts, ConcRequesters)
    \/ Identify(1)
    \/ BeginPass(1)
    \/ NestedRead(1)
    \/ EndPass(1)
    \/ ExitLoop(1)
    \/ Finish(1)

SpecStart == InitStart /\ [][NextStart]_vars

\* The refresh task alone (src/src/main.rs:33-42): tick after tick, each
\* attempt answered by the network with a failure or with any response.
\* tokio's interval fires as long as the process runs, so a tick that can
\* happen does happen: weak fairness on the attempt and on the steps of
\* refresh.
MaxAttempts == 2

RetryTick == RefreshFetchUpTo(AnyResponses, MaxAttempts)

NextRetry ==
    \/ RetryTick
    \/ RefreshParse
    \/ RefreshCompile
    \/ RefreshWrite

SpecRetry ==
    /\ InitRefresh
    /\ [][NextRetry]_vars
    /\ WF_vars(RetryTick)
    /\ WF_vars(RefreshParse)
    /\ WF_vars(RefreshCompile)
    /\ WF_vars(RefreshWrite)

\* The texts that are expanded, and the URLs a redirect can name.
ExpandTexts ==
    { Str("https://") \o Str("bit.ly") \o Str("/a"),
      Str("https://") \o Str("t.co") \o Str("/a"),
      Str("https://") \o Str("bit.ly"),
      Str("bit.ly") \o Str("/a"),
      Str("https://") \o Str("reddit.com") \o Str("/r/x"),
      Str("https://") \o Str("example.com") \o Str("/") \o << "?" >> \o Str("ref=bit.ly"),
      Str("https://") \o Str("example.com") \o Str("/BIT.LY"),
      Str("https://") \o Str("example.com") \o Str("/") \o << "?" >> \o Str("utm_source=test"),
      Str("mailto:") \o Str("t.me") }

Locations ==
    { Unwrap(ParseUrl(Str("https://") \o Str("example.com") \o Str("/") \o << "?" >> \o Str("utm_source=test"))),
      Unwrap(ParseUrl(Str("https://") \o Str("t.co") \o Str("/a"))),
      Unwrap(ParseUrl(Str("https://") \o Str("bit.ly") \o Str("/a"))) }

InitExpand ==
    /\ providers \in CompiledLists(DocumentPool[1])
    /\ readers = [ t \in Threads |-> 0 ]
    /\ writer = "none"
    /\ writerFirst = FALSE
    /\ call = [ t \in Threads |-> IdleCall ]
    /\ task = IdleTask
    /\ expansion = IdleExpansion
    /\ db = EmptyDb
    /\ req = IdleReq
    /\ out = NoOutput

NextExpand ==
    \/ ExpandUrl(ExpandTexts)
    \/ ResponseRedirect(Locations)
    \/ ResponseFinal
    \/ RequestFails

SpecExpand == InitExpand /\ [][NextExpand]_vars

(***************************************************************************)
(* Properties.                                                             *)
(***************************************************************************)
\* The URL that sanitize parses from the text of thread t's call (lines
\* 192-197).
InputUrl(t) == ParseUrl(Normalize(call[t].text))

\* C1: idempotence of sanitize.  When sanitize returned Some(c, _) and c is
\* sanitized again with the same custom rules, the same ignored domains and
\* the same store, the second call returns None.
C1_Idempotent ==
    \A t \in Threads : (call[t].pc = "done" /\ call[t].n > 1) => call[t].result = None

\* C2: bounded convergence.  One invocation of clean_url_in_place runs its
\* loop body at most 5 times, whatever the store and the URL: the invocation
\* that sanitize makes (passes) and every recursive one (bodies).
C2_BoundedConvergence ==
    \A t \in Threads : call[t].passes <= 5 /\ call[t].bodies <= 5

\* The cap is reached by a redirection that leads to the URL it came from:
\* the fifth body redirected again.
C2_CapReachedByCycle ==
    \E t \in Threads : /\ call[t].pc = "fallback"
                        /\ call[t].passes = 5
                        /\ Len(call[t].events) = 5
                        /\ << "redirect", Str("redirector") >> \in call[t].events[5]

\* C3: ignored domains are absolute.  When the parsed host of the input
\* contains an entry of ignored_domains, sanitize returns None and no
\* rewriting step has run: the call ends where the check is made.
C3_IgnoredDomain ==
    \A t \in Threads :
        ( /\ call[t].pc # "idle"
          /\ IsSome(InputUrl(t))
          /\ IsSome(Unwrap(InputUrl(t)).host)
          /\ \E i \in 1 .. Len(call[t].ignored_domains) :
                Contains(Unwrap(Unwrap(InputUrl(t)).host), call[t].ignored_domains[i]) )
        => ( /\ call[t].pc = "done"
             /\ call[t].result = None
             /\ call[t].url = None
             /\ call[t].passes = 0 )

\* An ignored host that is longer than the entry, with a query parameter
\* that a rule of the store and a custom rule would both remove.
C3_IgnoredWithTrackers ==
    \E t \in Threads : /\ call[t].pc = "done"
                        /\ call[t].result = None
                        /\ call[t].ignored_domains = << Str("example") >>
                        /\ IsSome(InputUrl(t))
                        /\ Unwrap(InputUrl(t)).host = Some(Str("example.com"))
                        /\ Contains(call[t].text, Str("utm_source=test"))
                        /\ Len(call[t].custom_rules) > 0
                        /\ \E i \in 1 .. Len(providers) : providers[i].name = Str("generic")

\* An ignored GitHub deep link, which the GitHub step would cut.
C3_IgnoredGithub ==
    \E t \in Threads : /\ call[t].pc = "done"
                        /\ call[t].result = None
                        /\ Contains(call[t].text, Str("github.com") \o Str("/o/r/b"))
                        /\ Str("github") \in { call[t].ignored_domains[i] :
                                                 i \in 1 .. Len(call[t].ignored_domains) }

\* C4: a failed refresh leaves the store as it was.  When refresh ends with
\* an error (the fetch failed, the response is not JSON, or the document has
\* no providers mapping) the store equals the store from before that refresh;
\* a response that is no document makes refresh return the error; and the
\* store changes only in the step that follows the compilation of the whole
\* document, to the list compiled from it, with refresh returning Ok.
C4_FailedRefreshKeepsStore ==
    [][ /\ (task'.result = "err" => providers' = task'.before)
        /\ ( (task.pc = "parse" /\ Unwrap(task.resp).kind # "document" /\ task' # task)
              => (task'.result = "err" /\ task'.pc = "idle") )
        /\ ( providers' # providers
              => ( /\ task.pc = "compile"
                   /\ task.data = {}
                   /\ Unwrap(task.resp).kind = "document"
                   /\ providers' = task.compiled_providers
                   /\ providers' \in CompiledLists(Unwrap(task.resp).providers)
                   /\ task'.result = "ok" ) ) ]_vars

\* A refresh whose document lacks the providers mapping has returned its
\* error over a store that holds providers.
C4_MalformedDocumentRejected ==
    /\ task.result = "err"
    /\ IsSome(task.resp)
    /\ Unwrap(task.resp).kind = "no_providers"
    /\ providers # << >>
    /\ providers = task.before

\* The complete lists: those the store can start with and those a fetched
\* document compiles to.
CompleteLists ==
    CompiledLists(DocumentPool[1])
    \cup UNION { CompiledLists(r.providers) : r \in { r \in Responses : r.kind = "document" } }

\* C5: atomic hot-swap.  Under every interleaving of sanitize calls with a
\* refresh, the store, and so every list a reader has observed under a read
\* guard, is a complete list: the one from before the refresh or the whole
\* list compiled from the fetched document, never a part of it.
C5_AtomicHotSwap ==
    /\ providers \in CompleteLists
    /\ \A t \in Threads : call[t].seen \subseteq CompleteLists

\* One call has observed the list from before a refresh and, after the
\* refresh wrote, the new list.
C5_ReaderSeesOldAndNew ==
    \E t \in Threads : /\ task.result = "ok"
                        /\ task.before \in call[t].seen
                        /\ providers \in call[t].seen
                        /\ providers # task.before

\* C6: single-snapshot sanitize.  One sanitize call reads one version of the
\* store: the list read for the label and the lists read by the passes are
\* the same list, also when a refresh completes while the call is in flight.
C6_SingleSnapshot ==
    \A t \in Threads : Cardinality(call[t].seen) <= 1

\* Thread t is in RwLock::read (lines 245, 315) and the call does not return
\* while the writer waits.
ReadWaits(t) ==
    /\ \/ call[t].pc \in { "identify", "nested" }
       \/ call[t].pc = "pass" /\ call[t].iterations < MAX_ITERATIONS
    /\ ~CanRead

\* The refresh is in RwLock::write (line 114) and the call does not return
\* while a read guard is held.
WriteWaits == task.pc = "compile" /\ task.data = {} /\ ~NoReaders

\* C7: no deadlock between the readers and the writer.  Every sanitize call
\* returns and the refresh completes: no thread waits for the read guard,
\* holding a read guard of the enclosing pass, while the refresh waits for
\* the write guard, since then neither gets its guard.
C7_NoDeadlock ==
    \A t \in Threads : ~(ReadWaits(t) /\ readers[t] > 0 /\ WriteWaits)

\* The names of the top-level query parameters of a URL.
ParamNames(url) ==
    IF IsSome(url.query)
    THEN { QueryPairs(Unwrap(url.query))[i][1] : i \in 1 .. Len(QueryPairs(Unwrap(url.query))) }
    ELSE {}

\* The parameter names of the input of thread t's call that contain the
\* pattern of one of its custom rules.
CustomMatched(t) ==
    { k \in ParamNames(Unwrap(InputUrl(t))) :
        \E i \in 1 .. Len(call[t].custom_rules) : Contains(k, call[t].custom_rules[i].pattern) }

\* The call of thread t has returned, for an input that parses and whose
\* host is not ignored.
Answered(t) ==
    /\ call[t].pc = "done"
    /\ IsSome(InputUrl(t))
    /\ ~HostIgnored(Unwrap(InputUrl(t)), call[t].ignored_domains)

\* The cleaned URL of the result of thread t's call.
ResultUrl(t) == ParseUrl(Unwrap(call[t].result)[1])

\* C8: custom-rule precedence.  For a parseable input whose host is not
\* ignored: when a top-level parameter name of the input contains a custom
\* rule's pattern, sanitize returns Some and no parameter of that name is in
\* the result, whatever the store; and when no provider pattern matches the
\* input and the GitHub step did not fire, the label is "Custom/Other".
C8_CustomRulePrecedence ==
    \A t \in Threads :
        Answered(t) =>
            /\ CustomMatched(t) # {} =>
                  /\ IsSome(call[t].result)
                  /\ IsSome(ResultUrl(t))
                  /\ ParamNames(Unwrap(ResultUrl(t))) \cap CustomMatched(t) = {}
            /\ ( /\ IsSome(call[t].result)
                 /\ ~call[t].github_changed
                 /\ \A i \in 1 .. Len(providers) : ~IsMatch(providers[i].url_pattern, call[t].text) )
               => Unwrap(call[t].result)[2] = CustomOther

\* The decoded query pairs of a URL.
PairsOf(url) == IF IsSome(url.query) THEN QueryPairs(Unwrap(url.query)) ELSE << >>

\* The names of the providers that were active in pass i of thread t's call.
ActiveIn(t, i) == { e[2] : e \in { e \in call[t].events[i] : e[1] = "active" } }

\* A rule or referral_marketing matcher of provider p matches the name.
RuleMatches(p, name) == AnyMatch(p.rules, name) \/ AnyMatch(p.referral_marketing, name)

\* In no pass of thread t's call did an exception of an active provider
\* match, or a redirection or raw rule apply.
PlainPasses(t) ==
    \A i \in 1 .. Len(call[t].events) :
        \A e \in call[t].events[i] : e[1] \notin { "exception", "redirect", "raw", "rawfail" }

\* C9: provider parameter filtering.  With no custom rules and the GitHub
\* step not firing, when provider i of the store is the one active provider
\* of the call and no exception, redirection or raw rule of it matched, the
\* query of the result holds exactly the input parameters whose names match
\* none of its rules or referral_marketing matchers, in their order and with
\* their values, and there is no query when none survives.
C9_ProviderFiltering ==
    \A t \in Threads : \A i \in 1 .. Len(providers) :
        ( /\ Answered(t)
          /\ IsSome(call[t].result)
          /\ call[t].custom_rules = << >>
          /\ ~call[t].github_changed
          /\ PlainPasses(t)
          /\ \A j \in 1 .. Len(call[t].events) : ActiveIn(t, j) = { providers[i].name } )
        => /\ IsSome(ResultUrl(t))
           /\ PairsOf(Unwrap(ResultUrl(t)))
                = SelectSeq(PairsOf(Unwrap(InputUrl(t))),
                            LAMBDA kv : ~RuleMatches(providers[i], kv[1]))
           /\ PairsOf(Unwrap(ResultUrl(t))) = << >> => Unwrap(ResultUrl(t)).query = None

\* The providers of the store that were active in the first pass of thread
\* t's call.
ActiveProviders(t) == { i \in 1 .. Len(providers) : providers[i].name \in ActiveIn(t, 1) }

\* What the custom pass, the active providers and the fallback pass leave of
\* the input's parameters.
Survives(t, kv) ==
    /\ CustomKeeps(call[t].custom_rules, kv[1])
    /\ \A i \in ActiveProviders(t) : ~RuleMatches(providers[i], kv[1])
    /\ kv[1] \notin AggressiveTrackers

\* C9, amended: when sanitize returns Some, the GitHub step did not fire, the
\* same providers were active in every pass, no exception, redirection or raw
\* rule of them matched, and no parameter value starts with "http", the query
\* of the result holds exactly the input parameters whose names contain no
\* custom pattern, match no rule or referral_marketing matcher of an active
\* provider and are none of the fallback tracker names, in their order and
\* with their values; when parameters were removed and none survives there is
\* no query.
C9_ProviderFilteringAmended ==
    \A t \in Threads :
        ( /\ Answered(t)
          /\ IsSome(call[t].result)
          /\ ~call[t].github_changed
          /\ PlainPasses(t)
          /\ \A j \in 1 .. Len(call[t].events) : ActiveIn(t, j) = ActiveIn(t, 1)
          /\ \A k \in 1 .. Len(PairsOf(Unwrap(InputUrl(t)))) :
                ~StartsWith(PairsOf(Unwrap(InputUrl(t)))[k][2], Str("http")) )
        => /\ IsSome(ResultUrl(t))
           /\ PairsOf(Unwrap(ResultUrl(t)))
                = SelectSeq(PairsOf(Unwrap(InputUrl(t))), LAMBDA kv : Survives(t, kv))
           /\ ( PairsOf(Unwrap(ResultUrl(t))) = << >> /\ PairsOf(Unwrap(InputUrl(t))) # << >> )
                => Unwrap(ResultUrl(t)).query = None

\* The generic provider removed utm_source and kept foo=bar.
C9_GenericKeepsFoo ==
    \E t \in Threads :
        /\ Answered(t)
        /\ call[t].custom_rules = << >>
        /\ call[t].text = Str("https://") \o Str("example.com") \o Str("/") \o << "?" >>
                            \o Str("utm_source=test") \o << "&" >> \o Str("foo=bar")
        /\ Len(call[t].events) > 0
        /\ ActiveIn(t, 1) = { Str("generic") }
        /\ call[t].result = Some(<< Str("https://") \o Str("example.com") \o Str("/") \o << "?" >>
                                      \o Str("foo=bar"), Str("generic") >>)

\* A referral_marketing matcher removed a parameter.
C9_ReferralRemoved ==
    \E t \in Threads :
        /\ Answered(t)
        /\ IsSome(call[t].result)
        /\ call[t].custom_rules = << >>
        /\ PlainPasses(t)
        /\ Len(call[t].events) > 0
        /\ ActiveIn(t, 1) = { Str("example") }
        /\ \E k \in 1 .. Len(PairsOf(Unwrap(InputUrl(t)))) :
              PairsOf(Unwrap(InputUrl(t)))[k][1] = Str("ref")
        /\ Str("ref") \notin ParamNames(Unwrap(ResultUrl(t)))

\* The destinations that the redirections of the providers of the store hold
\* for the text url_str: the URL-decoded capture group 1 of a redirections
\* matcher of an active provider without a matching exception, when it is a
\* URL.
Destinations(url_str) ==
    { Unwrap(ParseUrl(PercentDecode(Unwrap(CaptureGroup1(providers[i].redirections[j], url_str))))) :
        << i, j >> \in
          { ij \in (1 .. Len(providers)) \X (1 .. 2) :
              /\ ij[2] <= Len(providers[ij[1]].redirections)
              /\ Active(providers[ij[1]], url_str)
              /\ ~AnyMatch(providers[ij[1]].exceptions, url_str)
              /\ IsSome(CaptureGroup1(providers[ij[1]].redirections[ij[2]], url_str))
              /\ IsSome(ParseUrl(PercentDecode(
                          Unwrap(CaptureGroup1(providers[ij[1]].redirections[ij[2]], url_str))))) } }

\* C10: redirection unwrapping.  When a redirections matcher of an active
\* provider matches the URL a pass starts with and its capture group 1,
\* URL-decoded, is a URL, the pass replaces the whole URL by that
\* destination: the URL after the pass has the destination's scheme and host
\* (its parameters are cleaned by the providers that follow and by later
\* passes).
C10_RedirectionUnwrapping ==
    [][ \A t \in Threads :
          ( /\ call[t].pc = "endpass"
            /\ call'[t].pc # "endpass"
            /\ Destinations(UrlToString(call[t].url)) # {} )
          => \E d \in Destinations(UrlToString(call[t].url)) :
                 /\ call'[t].url.scheme = d.scheme
                 /\ call'[t].url.host = d.host ]_vars

(***************************************************************************)
(* GitHub repository-root truncation (lines 164-186, 205-208).             *)
(***************************************************************************)
\* The input of thread t's call is a github.com URL with more than two path
\* segments.
DeepGithub(t) ==
    /\ IsSome(InputUrl(t))
    /\ Unwrap(InputUrl(t)).host = Some(Str("github.com"))
    /\ IsSome(PathSegments(Unwrap(InputUrl(t))))
    /\ Len(Unwrap(PathSegments(Unwrap(InputUrl(t))))) > 2

\* The input URL cut to its first two path segments, without query and
\* fragment.
OwnerRepo(url) ==
    [ url EXCEPT !.path = << "/" >> \o Unwrap(PathSegments(url))[1]
                          \o << "/" >> \o Unwrap(PathSegments(url))[2],
                 !.query = None,
                 !.fragment = None ]

\* No provider of the store has a url_pattern that matches the text.
NoPatternMatches(text) ==
    \A i \in 1 .. Len(providers) : ~IsMatch(providers[i].url_pattern, text)

\* C11 as stated: for an input whose host is exactly github.com and whose
\* path has more than two segments, with no provider pattern matching the
\* input text, sanitize returns the URL cut to /owner/repo, without query
\* and fragment, labelled "GitHub (Repo Root)"; a github.com URL with at most
\* two segments leaves the step unaltered.
C11_GithubRepoRoot ==
    \A t \in Threads :
        /\ ( /\ call[t].pc = "done"
             /\ DeepGithub(t)
             /\ NoPatternMatches(call[t].text) )
           => call[t].result =
                Some(<< UrlToString(OwnerRepo(Unwrap(InputUrl(t)))), GitHubRepoRoot >>)
        /\ ( /\ call[t].pc = "identify"
             /\ IsSome(InputUrl(t))
             /\ Unwrap(InputUrl(t)).host = Some(Str("github.com"))
             /\ ~DeepGithub(t) )
           => /\ ~call[t].github_changed
              /\ call[t].custom_rules = << >> => call[t].url = Unwrap(InputUrl(t))

\* C11, amended: the same, for an input whose host is not ignored and when
\* no provider is active on the truncated URL either (none is named
\* "generic" and no url_pattern matches the truncated URL).
C11_GithubRepoRootAmended ==
    \A t \in Threads :
        /\ ( /\ Answered(t)
             /\ DeepGithub(t)
             /\ NoPatternMatches(call[t].text)
             /\ \A i \in 1 .. Len(providers) :
                    ~Active(providers[i], UrlToString(OwnerRepo(Unwrap(InputUrl(t))))) )
           => call[t].result =
                Some(<< UrlToString(OwnerRepo(Unwrap(InputUrl(t)))), GitHubRepoRoot >>)
        /\ ( /\ call[t].pc = "identify"
             /\ IsSome(InputUrl(t))
             /\ Unwrap(InputUrl(t)).host = Some(Str("github.com"))
             /\ ~DeepGithub(t) )
           => /\ ~call[t].github_changed
              /\ call[t].custom_rules = << >> => call[t].url = Unwrap(InputUrl(t))

\* A github.com input with three segments, a query and a fragment, under a
\* store none of whose patterns match it, was answered with its repository
\* root.
C11_DeepLinkTruncated ==
    \E t \in Threads :
        /\ Answered(t)
        /\ DeepGithub(t)
        /\ NoPatternMatches(call[t].text)
        /\ Len(providers) > 0
        /\ IsSome(Unwrap(InputUrl(t)).query)
        /\ IsSome(Unwrap(InputUrl(t)).fragment)
        /\ call[t].result =
             Some(<< Str("https://") \o Str("github.com") \o Str("/o/r"), GitHubRepoRoot >>)

(***************************************************************************)
(* The fallback pass (lines 259-289).                                      *)
(***************************************************************************)
\* C12: aggressive fallback.  For a parseable input whose host is not
\* ignored and for every store and custom-rule list: when the URL the
\* provider rewrite left has a top-level parameter named exactly one of the
\* fixed tracker names, sanitize returns a result, and the parameters of
\* the result are those of that URL without the trackers, in order.
C12_AggressiveFallback ==
    [][ \A t \in Threads :
          ( /\ call[t].pc = "fallback"
            /\ call'[t].pc = "done"
            /\ ParamNames(call[t].url) \cap AggressiveTrackers # {} )
          => /\ IsSome(call'[t].result)
             /\ PairsOf(Unwrap(ParseUrl(Unwrap(call'[t].result)[1])))
                  = SelectSeq(PairsOf(call[t].url), LAMBDA kv : kv[1] \notin AggressiveTrackers)
             /\ ParamNames(Unwrap(ParseUrl(Unwrap(call'[t].result)[1]))) \cap AggressiveTrackers = {} ]_vars

\* A provider whose exception matched left the URL alone, and the fallback
\* pass took oq out of keep=1&oq=1&foo=bar.
C12_TrackerStrippedUnderException ==
    \E t \in Threads :
        /\ Answered(t)
        /\ Len(call[t].events) > 0
        /\ << "exception", Str("example") >> \in call[t].events[1]
        /\ << "o", "q" >> \in ParamNames(Unwrap(InputUrl(t)))
        /\ IsSome(call[t].result)
        /\ PairsOf(Unwrap(ResultUrl(t))) = << << Str("keep"), << "1" >> >>, << Str("foo"), Str("bar") >> >>

(***************************************************************************)
(* The result of sanitize (lines 291-303).                                 *)
(***************************************************************************)
\* C13: a result means a change.  When sanitize returns Some(cleaned, _),
\* cleaned differs from the serialization of the parsed, scheme-normalized
\* input.
C13_ResultMeansChange ==
    \A t \in Threads :
        (call[t].pc = "done" /\ IsSome(call[t].result))
            => Unwrap(call[t].result)[1] # UrlToString(Unwrap(InputUrl(t)))

\* C14: input-shape errors.  When the input, prefixed with http:// if it
\* contains no "://" and does not start with "mailto:", does not parse as a
\* URL, sanitize returns None, for every store and custom-rule list.
C14_UnparseableInput ==
    \A t \in Threads :
        (call[t].pc = "done" /\ ~IsSome(ParseUrl(Normalize(call[t].text))))
            => call[t].result = None

\* A text without "://" that does not parse after the prefix was added was
\* answered None under a non-empty store and with custom rules.
C14_PrefixedTextRejected ==
    \E t \in Threads :
        /\ call[t].pc = "done"
        /\ ~Contains(call[t].text, Str("://"))
        /\ Normalize(call[t].text) = Str("http://")
        /\ ~IsSome(ParseUrl(Normalize(call[t].text)))
        /\ call[t].custom_rules # << >>
        /\ Len(providers) > 0
        /\ call[t].result = None

(***************************************************************************)
(* Compilation of a document (lines 85-111).                               *)
(***************************************************************************)
\* The urlPattern of a document entry is non-empty and compiles.
Accepted(e) == ~IsEmptyPattern(e.urlPattern) /\ IsSome(RegexNew(e.urlPattern))

\* The matchers of the strings of a list that compile, in the list's order.
CompilingOf(list) ==
    [ i \in 1 .. Len(SelectSeq(list, LAMBDA x : IsSome(RegexNew(x)))) |->
        Unwrap(RegexNew(SelectSeq(list, LAMBDA x : IsSome(RegexNew(x)))[i])) ]

\* The stored provider p is what entry e compiles to.
StoredFor(p, e) ==
    /\ p.name = e.name
    /\ p.url_pattern = Unwrap(RegexNew(e.urlPattern))
    /\ p.rules = CompilingOf(e.rules)
    /\ p.exceptions = CompilingOf(e.exceptions)
    /\ p.raw_rules = CompilingOf(e.rawRules)
    /\ p.redirections = CompilingOf(e.redirections)
    /\ p.referral_marketing = CompilingOf(e.referralMarketing)

\* C15: partial acceptance at compile time.  The store a successful refresh
\* leaves holds exactly one provider for each entry of the document whose
\* urlPattern is non-empty and compiles and none for the others, each with
\* exactly the strings of its five lists that compile, in document order;
\* and once the document has parsed, the refresh does not fail.
C15_PartialAcceptance ==
    [][ /\ ( /\ task.pc = "compile"
             /\ task'.pc = "idle"
             /\ task'.result = "ok" )
           => /\ Len(providers') = Cardinality({ e \in Unwrap(task.resp).providers : Accepted(e) })
              /\ \A e \in Unwrap(task.resp).providers :
                    IF Accepted(e)
                    THEN /\ Cardinality({ i \in 1 .. Len(providers') : providers'[i].name = e.name }) = 1
                         /\ \E i \in 1 .. Len(providers') : StoredFor(providers'[i], e)
                    ELSE \A i \in 1 .. Len(providers') : providers'[i].name # e.name
        /\ task.pc = "compile" => task'.result # "err" ]_vars

\* A refresh of the document { shop, generic (with a rule that does not
\* compile), github (urlPattern does not compile), tracker (empty
\* urlPattern) } succeeded and left the two providers shop and generic,
\* generic with its one rule that compiles.
C15_BrokenEntriesSkipped ==
    /\ task.pc = "idle"
    /\ task.result = "ok"
    /\ Unwrap(task.resp).providers = DocumentPool[5]
    /\ Len(providers) = 2
    /\ { providers[i].name : i \in 1 .. 2 } = { Str("shop"), Str("generic") }
    /\ \E i \in 1 .. 2 :
          /\ providers[i].name = Str("generic")
          /\ Len(providers[i].rules) = 1
          /\ Len(GenericEntry.rules) = 2

(***************************************************************************)
(* The label of a result (lines 204-208, 243-254).                         *)
(***************************************************************************)
\* The positions in the store of the providers whose url_pattern matches
\* the text.
Matching(text) == { i \in 1 .. Len(providers) : IsMatch(providers[i].url_pattern, text) }

\* The label of the result of thread t's call.
Label(t) == Unwrap(call[t].result)[2]

\* C16: provider label.  When sanitize returns a result and a stored
\* provider's url_pattern matches the input text as given, the label is the
\* name of the first such provider in store order; otherwise it is
\* "GitHub (Repo Root)" when the GitHub truncation fired and "Custom/Other"
\* when it did not.
C16_ProviderLabel ==
    \A t \in Threads :
        (call[t].pc = "done" /\ IsSome(call[t].result))
            => IF Matching(call[t].text) # {}
               THEN \E i \in Matching(call[t].text) :
                        /\ \A j \in Matching(call[t].text) : i <= j
                        /\ Label(t) = providers[i].name
               ELSE IF DeepGithub(t)
               THEN Label(t) = GitHubRepoRoot
               ELSE Label(t) = CustomOther

\* Two providers match the text, the first of them in store order is not
\* "generic" and gave the label, and no provider changed anything: the
\* result is due to the fallback pass or the custom rules.
C16_FirstMatchNamesResult ==
    \E t \in Threads :
        /\ Answered(t)
        /\ IsSome(call[t].result)
        /\ Cardinality(Matching(call[t].text)) > 1
        /\ \E i \in Matching(call[t].text) :
              /\ \A j \in Matching(call[t].text) : i <= j
              /\ providers[i].name # Str("generic")
              /\ Label(t) = providers[i].name
        /\ \A k \in 1 .. Len(call[t].events) :
              \A e \in call[t].events[k] : e[1] \in { "active", "exception" }

\* The URL of thread t's call after the custom-rule pass, when the GitHub
\* step does not apply.
AfterCustomPass(t) == CustomPass(Unwrap(InputUrl(t)), call[t].custom_rules).url

\* C17 as stated: when the GitHub step and the provider rewrite changed
\* nothing, so that only the custom-rule pass and the fallback pass altered
\* the URL, the label of the result is "Custom/Other".
C17_CustomOtherLabel ==
    [][ \A t \in Threads :
          ( /\ call[t].pc = "fallback"
            /\ call'[t].pc = "done"
            /\ IsSome(call'[t].result)
            /\ ~DeepGithub(t)
            /\ call[t].url = AfterCustomPass(t) )
          => Unwrap(call'[t].result)[2] = CustomOther ]_vars

\* C17, amended: the same when, in addition, no stored provider's
\* url_pattern matches the input text.
C17_CustomOtherLabelAmended ==
    [][ \A t \in Threads :
          ( /\ call[t].pc = "fallback"
            /\ call'[t].pc = "done"
            /\ IsSome(call'[t].result)
            /\ ~DeepGithub(t)
            /\ call[t].url = AfterCustomPass(t)
            /\ Matching(call[t].text) = {} )
          => Unwrap(call'[t].result)[2] = CustomOther ]_vars

\* Under a non-empty store none of whose patterns match the text, the
\* custom-rule pass removed a parameter, the providers left the URL as it
\* was, and the result is labelled "Custom/Other".
C17_CustomRuleOnly ==
    \E t \in Threads :
        /\ Answered(t)
        /\ ~DeepGithub(t)
        /\ Len(providers) > 0
        /\ Matching(call[t].text) = {}
        /\ call[t].custom_changed
        /\ IsSome(call[t].result)
        /\ ResultUrl(t) = Some(AggressiveFallback(AfterCustomPass(t)).url)
        /\ Label(t) = CustomOther

(***************************************************************************)
(* Exceptions (lines 311-331).                                             *)
(***************************************************************************)
\* C18: exception short-circuit across passes.  Once an exceptions matcher
\* of a provider has matched the URL in a pass of a clean_url_in_place call,
\* that provider removes no parameter, follows no redirection and applies
\* no raw rule in any later pass of the same call.
C18_ExceptionShortCircuit ==
    \A t \in Threads :
        \A i, j \in 1 .. Len(call[t].events) :
            \A p \in 1 .. Len(providers) :
                (i < j /\ << "exception", providers[p].name >> \in call[t].events[i])
                    => \A kind \in { "params", "redirect", "raw" } :
                           << kind, providers[p].name >> \notin call[t].events[j]

(***************************************************************************)
(* expand_url (lines 127-154).                                             *)
(***************************************************************************)
\* The host of the text, parsed as a URL, is one of the shortener domains.
HostIsShortener(input_url) ==
    /\ IsSome(ParseUrl(input_url))
    /\ \E i \in 1 .. Len(Shorteners) : Unwrap(ParseUrl(input_url)).host = Some(Shorteners[i])

\* C19: shortener expansion is gated on the host.  expand_url sends a
\* request only when the host of the input is one of the shortener domains;
\* for every other input it sends none and returns the input.
C19_GatedOnHost ==
    /\ expansion.requests > 0 => HostIsShortener(expansion.input_url)
    /\ (expansion.pc = "done" /\ ~HostIsShortener(expansion.input_url))
          => /\ expansion.requests = 0
             /\ expansion.result = Some(expansion.input_url)

\* C20: expand_url always returns a string and degrades to the input.  A
\* call that has returned has returned a string; when the client was not
\* built, the request was refused, failed or timed out, or the redirects
\* exceeded the limit, the string is the input; and a string other than the
\* input is the final URL of a response, which differs from the input.
C20_DegradesToInput ==
    expansion.pc = "done"
        => /\ IsSome(expansion.result)
           /\ expansion.error # "none" => expansion.result = Some(expansion.input_url)
           /\ expansion.result # Some(expansion.input_url)
                 => /\ expansion.error = "none"
                    /\ IsSome(expansion.final_url)
                    /\ expansion.final_url # Some(expansion.input_url)
                    /\ expansion.result = expansion.final_url

\* A request for a shortener URL was redirected as often as the policy
\* allows and once more, and the call returned the input.
C20_TooManyRedirects ==
    /\ expansion.pc = "done"
    /\ expansion.error = "redirects"
    /\ expansion.hops = RedirectLimit
    /\ expansion.requests = RedirectLimit + 1
    /\ expansion.result = Some(expansion.input_url)

(***************************************************************************)
(* Logging (lines 188-190, 200, 224, 249, 274, 293-298).                   *)
(***************************************************************************)
\* C21: redacted logging.  No record of a sanitize call, the fields of its
\* span included, carries the input text in unredacted form: when
\* redact_sensitive changes the text, no logged value contains the text as
\* it was given.
C21_RedactedLogging ==
    \A t \in Threads :
        RedactSensitive(call[t].text) # call[t].text
            => \A r \in call[t].log : ~Contains(r[2], call[t].text)

(***************************************************************************)
(* Start-up (src/src/main.rs:11-42).                                       *)
(***************************************************************************)
\* C22: no refresh failure terminates the host process.  Whether the refresh
\* runs at start-up or from the periodic task, a refresh that failed leaves
\* a running process.
C22_ProcessKeepsRunning == task.process # "exited"

(***************************************************************************)
(* The order of the store (lines 39-42, 85-111).                           *)
(***************************************************************************)
\* The stores that hold the providers of the current store in some order:
\* what the refreshes of one document can leave.
Reorderings ==
    { [ i \in 1 .. Len(providers) |-> providers[f[i]] ] :
        f \in { f \in [ 1 .. Len(providers) -> 1 .. Len(providers) ] :
                  \A i, j \in 1 .. Len(providers) : i # j => f[i] # f[j] } }

\* The URL the provider rewrite starts from in thread t's call.
RewriteStart(t) ==
    CustomPass(CleanGithubUrl(Unwrap(InputUrl(t))).url, call[t].custom_rules).url

\* What sanitize returns for the arguments of thread t's call when the store
\* is provs (lines 243-302).
ResultWith(provs, t, r) ==
    IF r.changed \/ AggressiveFallback(r.url).changed
       \/ call[t].custom_changed \/ call[t].github_changed
    THEN Some(<< UrlToString(AggressiveFallback(r.url).url),
                 IF IsSome(IdentifyProvider(provs, call[t].text))
                 THEN Unwrap(IdentifyProvider(provs, call[t].text))
                 ELSE IF call[t].github_changed THEN GitHubRepoRoot ELSE CustomOther >>)
    ELSE None

\* C23: determinism with respect to the ruleset document.  For fixed
\* arguments, sanitize returns the same cleaned URL and the same label
\* under every order in which the providers of the document can be stored.
C23_OrderIndependent ==
    \A t \in Threads :
        Answered(t)
            => \A provs \in Reorderings :
                   ResultWith(provs, t, CleanUrlInPlace(provs, RewriteStart(t))) = call[t].result

(***************************************************************************)
(* The passes of clean_url_in_place (lines 311-449).                       *)
(***************************************************************************)
\* The providers that reached their parameter rules in the pass with the
\* events evs: active, no exceptions matcher matched, no redirection taken.
Filtering(evs) ==
    { i \in 1 .. Len(providers) :
        /\ << "active", providers[i].name >> \in evs
        /\ << "exception", providers[i].name >> \notin evs
        /\ << "redirect", providers[i].name >> \notin evs }

\* Thread t ends a pass of its outer clean_url_in_place call in this step.
PassEnds(t) == call[t].pc = "endpass" /\ call'[t].pc \in { "pass", "fallback" }

\* The events of the pass that thread t ends in this step.
EndedPass(t) == call'[t].events[Len(call'[t].events)]

\* The value v is a nested URL that the recursive rewrite changes.
NestedChanged(v) ==
    /\ StartsWith(v, Str("http"))
    /\ IsSome(ParseUrl(v))
    /\ CleanUrlInPlace(providers, Unwrap(ParseUrl(v))).changed

\* The serialization of the nested URL v after the recursive rewrite.
NestedCleaned(v) == UrlToString(CleanUrlInPlace(providers, Unwrap(ParseUrl(v))).url)

\* The pairs of the URL before a pass that the pass should carry cleaned:
\* kept by every filtering provider, with a nested URL that the rewrite
\* changes, in a pass without redirection or raw rewrite.
NestedKept(t) ==
    IF \/ Filtering(EndedPass(t)) = {}
       \/ \E e \in EndedPass(t) : e[1] \in { "redirect", "raw" }
    THEN {}
    ELSE { i \in DOMAIN PairsOf(call[t].url) :
             /\ \A p \in Filtering(EndedPass(t)) : ~RuleMatches(providers[p], PairsOf(call[t].url)[i][1])
             /\ NestedChanged(PairsOf(call[t].url)[i][2]) }

\* C24: nested URL write-back.  After a pass, every kept query parameter
\* whose value is a nested URL changed by the recursive rewrite carries the
\* cleaned value in the outer URL, whether or not a parameter was removed.
C24_NestedWriteBack ==
    [][ \A t \in Threads :
          PassEnds(t)
              => \A i \in NestedKept(t) :
                     << PairsOf(call[t].url)[i][1], NestedCleaned(PairsOf(call[t].url)[i][2]) >>
                         \in { PairsOf(call'[t].url)[j] : j \in DOMAIN PairsOf(call'[t].url) } ]_vars

\* C25: provider activation uses the current URL.  Within a pass a provider
\* not named generic takes its turn (exceptions check, redirections,
\* parameter rules, raw rules) only if its url_pattern matches the URL as it
\* stands when the provider is evaluated.
C25_ActivationOnCurrentUrl ==
    \A t \in Threads :
        \A i \in 1 .. Len(call[t].events) :
            \A e \in call[t].events[i] : e[1] # "stale"

\* The providers that line 319 enters in a pass on the URL url.
EnteredOn(url) == { p \in 1 .. Len(providers) : Active(providers[p], UrlToString(url)) }

\* Those of them with an exceptions matcher that matches the URL.
ExceptedOn(url) == { p \in EnteredOn(url) : AnyMatch(providers[p].exceptions, UrlToString(url)) }

RedirectedOn(url) ==
    { p \in EnteredOn(url) \ ExceptedOn(url) :
        IsSome(Redirect(providers[p].redirections, UrlToString(url))) }

\* C27: redirection ends the provider's turn.  A provider whose redirection
\* replaces the URL in a pass does no parameter filtering, fragment
\* handling or raw rule in that pass, and the pass counts as changed; when
\* it is the only provider that acted, the URL after the pass is the target
\* of that one redirection of the URL before the pass (one hop).
C27_RedirectionEndsTurn ==
    [][ \A t \in Threads :
          PassEnds(t)
              => \A p \in RedirectedOn(call[t].url) :
                     /\ << "redirect", providers[p].name >> \in EndedPass(t)
                     /\ \A kind \in { "params", "nested", "fragment", "raw", "rawfail" } :
                            << kind, providers[p].name >> \notin EndedPass(t)
                     /\ call'[t].pc = "pass"
                     /\ call'[t].iterations = call[t].iterations + 1
                     /\ call'[t].changed
                     /\ (\A e \in EndedPass(t) : e[1] \in { "active", "stale", "exception" } \/ e[2] = providers[p].name)
                            => call'[t].url = Unwrap(Redirect(providers[p].redirections, UrlToString(call[t].url))) ]_vars

\* Witness for C27: a chain of two redirections resolved in two passes, one
\* hop each, by the same provider.
C27_TwoHopsTwoPasses ==
    \E t \in Threads :
        /\ call[t].pc = "done"
        /\ Len(call[t].events) = 3
        /\ << "redirect", Str("redir") >> \in call[t].events[1]
        /\ << "redirect", Str("redir") >> \in call[t].events[2]
        /\ call[t].result = Some(<< Str("https://") \o Str("b.test") \o Str("/"), Str("redir") >>)

(***************************************************************************)
(* Recursion (lines 376-421).                                              *)
(***************************************************************************)
\* The number of places from index from on where p occurs in s.
RECURSIVE Occurrences(_, _, _)
Occurrences(s, p, from) ==
    IF FindFrom(s, p, from) = 0 THEN 0
    ELSE 1 + Occurrences(s, p, FindFrom(s, p, from) + 1)

\* The places of a text where a recursive invocation can start: an "http"
\* after the first character of the normalized text, or a "#".
NestingBound(text) ==
    Occurrences(Normalize(text), Str("http"), 2) + Occurrences(text, << "#" >>, 1)

\* C28, as stated: every call of clean_url_in_place terminates, the
\* recursive ones included; the recursion is bounded, and each recursive
\* call works on a URL no longer than the part of the enclosing URL it is
\* derived from.
C28_RecursionShrinks ==
    \A t \in Threads :
        /\ call[t].passes <= MAX_ITERATIONS
        /\ call[t].bodies <= MAX_ITERATIONS
        /\ call[t].depth <= NestingBound(call[t].text)
        /\ ~call[t].longer

\* C28, amended: every call of clean_url_in_place terminates, the recursive
\* ones included: no invocation runs more than MAX_ITERATIONS loop bodies,
\* and the chain of recursive invocations is no deeper than the number of
\* nested URLs and fragments in the text.
C28_RecursionBounded ==
    \A t \in Threads :
        /\ call[t].passes <= MAX_ITERATIONS
        /\ call[t].bodies <= MAX_ITERATIONS
        /\ call[t].depth <= NestingBound(call[t].text)

\* Witness for C28: a finished call whose fragment was cleaned by a
\* recursive invocation that in turn cleaned a nested URL, on a URL longer
\* than the fragment.
C28_FragmentCallLonger ==
    \E t \in Threads :
        /\ call[t].pc = "done"
        /\ call[t].depth = 2
        /\ call[t].longer
        /\ \E p \in 1 .. Len(providers) : << "fragment", providers[p].name >> \in call[t].events[1]

(***************************************************************************)
(* The end of the loop (lines 311-314, 445-450).                           *)
(***************************************************************************)
\* Some provider removed a parameter, redirected, rewrote the fragment or
\* applied a raw rule in the pass with the events evs.
Altering(evs) == \E e \in evs : e[1] \in { "params", "redirect", "fragment", "raw" }

\* C29: early stop.  clean_url_in_place performs a further pass only after a
\* pass in which some provider removed a parameter, redirected, rewrote the
\* fragment or applied a raw rule, and after every such pass it performs a
\* further one unless MAX_ITERATIONS passes were made.
C29_EarlyStop ==
    \A t \in Threads :
        /\ \A i \in 1 .. (Len(call[t].events) - 1) : Altering(call[t].events[i])
        /\ Len(call[t].events) <= MAX_ITERATIONS
        /\ (/\ call[t].pc \in { "fallback", "done" }
            /\ Len(call[t].events) > 0
            /\ Altering(call[t].events[Len(call[t].events)]))
               => Len(call[t].events) = MAX_ITERATIONS

\* Witness for C29: a call that made a second pass after a pass that
\* removed a parameter and none after the second, in which a provider was
\* active and none altered the URL.
C29_StopsAfterQuietPass ==
    \E t \in Threads :
        /\ call[t].pc = "done"
        /\ Len(call[t].events) = 2
        /\ \E e \in call[t].events[1] : e[1] = "params"
        /\ \E e \in call[t].events[2] : e[1] = "active"
        /\ ~Altering(call[t].events[2])

(***************************************************************************)
(* Fragments (lines 404-421).                                              *)
(***************************************************************************)
\* The rewrite of the fragment f taken as a query string (lines 408-410).
FragmentCleaned(f) == CleanUrlInPlace(providers, Unwrap(ParseUrl(Str("http://localhost?") \o f)))

\* A pass in which one provider reached its fragment handling and none
\* redirected or applied a raw rule.
FragmentPass(t) ==
    /\ PassEnds(t)
    /\ Cardinality(Filtering(EndedPass(t))) = 1
    /\ \A e \in EndedPass(t) : e[1] \notin { "redirect", "raw", "rawfail" }

\* C30: fragment handling.  For an active provider a fragment without "="
\* is left unchanged; a fragment with "=" is cleaned as a query string by
\* the same rewrite, and if that changed it the fragment becomes the query
\* that survives, or is removed when no parameter survives.
C30_FragmentHandling ==
    [][ \A t \in Threads :
          FragmentPass(t)
              => IF ~IsSome(call[t].url.fragment) \/ ~Contains(Unwrap(call[t].url.fragment), << "=" >>)
                 THEN call'[t].url.fragment = call[t].url.fragment
                 ELSE IF FragmentCleaned(Unwrap(call[t].url.fragment)).changed
                 THEN /\ call'[t].url.fragment = FragmentCleaned(Unwrap(call[t].url.fragment)).url.query
                      /\ (PairsOf(FragmentCleaned(Unwrap(call[t].url.fragment)).url) = << >>
                             => call'[t].url.fragment = None)
                 ELSE call'[t].url.fragment = call[t].url.fragment ]_vars

\* Witness for C30: the only parameter of a fragment was removed and the
\* fragment with it.
C30_FragmentRemoved ==
    \E t \in Threads :
        /\ call[t].pc = "done"
        /\ call[t].text = Str("https://") \o Str("example.com") \o Str("/") \o << "#" >> \o Str("utm_x=1")
        /\ Len(call[t].events) > 0
        /\ \E e \in call[t].events[1] : e[1] = "fragment"
        /\ call[t].result = Some(<< Str("https://") \o Str("example.com") \o Str("/"), Str("generic") >>)

(***************************************************************************)
(* Raw rules (lines 423-440).                                              *)
(***************************************************************************)
\* The serialized URL after matcher i of raw_rules and those before it
\* deleted their matches, in list order.
RECURSIVE DeletedUpTo(_, _, _)
DeletedUpTo(raw_rules, str, i) ==
    IF i = 0 THEN str ELSE ReplaceAll(raw_rules[i], DeletedUpTo(raw_rules, str, i - 1))

\* A pass in which the raw rules of one provider met the URL the pass began
\* with: nothing was redirected, removed or rewritten before them.
RawPass(t) ==
    /\ PassEnds(t)
    /\ \A e \in EndedPass(t) : e[1] \notin { "redirect", "params", "fragment" }
    /\ Cardinality({ p \in Filtering(EndedPass(t)) : providers[p].raw_rules # << >> }) = 1

\* The provider whose raw rules are applied in such a pass.
RawProviderOf(t) ==
    providers[CHOOSE p \in Filtering(EndedPass(t)) : providers[p].raw_rules # << >>]

\* What the raw rules of that provider leave of the URL the pass began with.
RawOutcome(t) ==
    DeletedUpTo(RawProviderOf(t).raw_rules, UrlToString(call[t].url), Len(RawProviderOf(t).raw_rules))

\* C31: raw-rule substitution is all-or-nothing.  The raw rules of a
\* provider delete their matches from the serialized URL in list order; a
\* result that differs and parses replaces the URL and marks the pass
\* changed; a result that does not parse leaves the URL as it was and
\* records no change.
C31_RawAllOrNothing ==
    [][ \A t \in Threads :
          RawPass(t)
              => IF RawOutcome(t) # UrlToString(call[t].url) /\ IsSome(ParseUrl(RawOutcome(t)))
                 THEN /\ call'[t].url = Unwrap(ParseUrl(RawOutcome(t)))
                      /\ call'[t].changed
                      /\ call'[t].pc = "pass"
                 ELSE /\ call'[t].url = call[t].url
                      /\ call'[t].changed = (call[t].changed \/ \E e \in EndedPass(t) : e[1] = "nested")
                      /\ call'[t].pc = "fallback" ]_vars

\* Witness for C31: the raw rules left a string that is no URL, and the
\* call ended without a result.
C31_UnparseableLeftAlone ==
    \E t \in Threads :
        /\ call[t].pc = "done"
        /\ Len(call[t].events) = 1
        /\ << "rawfail", Str("shop") >> \in call[t].events[1]
        /\ call[t].url = Unwrap(InputUrl(t))
        /\ call[t].result = None

(***************************************************************************)
(* The refresh task (src/src/main.rs:33-42).                               *)
(***************************************************************************)
\* C32: refresh retry.  After a periodic refresh attempt failed the refresh
\* task is still alive and makes another attempt on its next tick: every
\* failure (but that of the last attempt the model makes) is followed by
\* another attempt.
C32_RetryAfterFailure ==
    \A k \in 1 .. (MaxAttempts - 1) :
        (task.result = "err" /\ task.pc # "parse" /\ task.pc # "compile" /\ task.n = k)
            ~> (task.n > k)

\* Witness for C32: a failed attempt was followed by an attempt that
\* succeeded and replaced the store.
C32_SuccessAfterFailure ==
    /\ task.failures > 0
    /\ task.n = 2
    /\ task.pc = "idle"
    /\ task.result = "ok"
    /\ providers = task.compiled_providers
    /\ providers # task.before

(***************************************************************************)
(* The bot and the dashboard over one database: the dispatcher handles the *)
(* messages of a chat one at a time, the web server its requests           *)
(* concurrently with the bot.                                              *)
(***************************************************************************)
\* The rule store stays as one start-up refresh left it.
InitApp ==
    /\ providers = CHOOSE p \in Stores : TRUE
    /\ readers = [ t \in Threads |-> 0 ]
    /\ writer = "none"
    /\ writerFirst = FALSE
    /\ call = [ t \in Threads |-> IdleCall ]
    /\ task = IdleTask
    /\ expansion = IdleExpansion
    /\ db = EmptyDb
    /\ req = IdleReq
    /\ out = NoOutput

\* handle_message.
Bot ==
    \/ BotReceive
    \/ BotStats
    \/ BotLoadChat
    \/ BotCheckChat
    \/ BotSaveChat
    \/ BotProcess
    \/ BotIncrement
    \/ BotLog
    \/ BotReply
    \/ BotSend

\* The bot beside the dashboard's requests on chat settings.
NextChats ==
    \/ Bot
    \/ ToggleChat
    \/ UpdateChatMode
    \/ SaveChat

SpecChats == InitApp /\ [][NextChats]_vars

\* The bot beside the dashboard's request on user settings.
NextUsers ==
    \/ Bot
    \/ UpdateConfig
    \/ SaveConfig

SpecUsers == InitApp /\ [][NextUsers]_vars

\* The bot beside the subscribers of the event stream.
NextEvents ==
    \/ Bot
    \/ Subscribe

SpecEvents == InitApp /\ [][NextEvents]_vars

\* The stored enabled flag or mode of chat c differs between the two states
\* of a step.
SettingsChange(c) ==
    /\ IsSome(db.chat_configs[c])
    /\ IsSome(db'.chat_configs[c])
    /\ \/ Unwrap(db'.chat_configs[c]).enabled # Unwrap(db.chat_configs[c]).enabled
       \/ Unwrap(db'.chat_configs[c]).mode # Unwrap(db.chat_configs[c]).mode

\* The step is the save of a toggle_chat or update_chat_mode request made
\* under the session of the chat's owner.
OwnerSaves(c) ==
    /\ req.web.pc = "save"
    /\ req'.web.pc = "idle"
    /\ req.web.handler \in { "toggle_chat", "update_chat_mode" }
    /\ req.web.chat_id = c
    /\ req.web.session = Some(Unwrap(db.chat_configs[c]).added_by)

\* C33: under any interleaving of the bot's message handling with the
\* dashboard's requests, the stored enabled flag and mode of a chat change
\* only in the save of a toggle_chat or update_chat_mode request whose
\* session user is the chat's added_by; no step of the bot changes them.
C33_SettingsOnlyByOwner ==
    [][ \A c \in GroupChats : SettingsChange(c) => OwnerSaves(c) ]_vars

\* The cleaned_count get_user_config returns for user u in database d.
CleanedCount(d, u) == get_user_config(d, u).cleaned_count

\* C34: under any interleaving of the bot's increment_cleaned_count with the
\* dashboard's update_config, no step lowers the stored cleaned_count of a
\* user, so that every increment the bot applied stays in it.
C34_CountNeverDecreases ==
    [][ \A u \in Users : CleanedCount(db', u) >= CleanedCount(db, u) ]_vars

\* The step is the handler's increment_cleaned_count for n cleaned URLs of
\* user u.
Increments(u, n) ==
    /\ req.bot.pc = "count"
    /\ req'.bot.pc = "log"
    /\ req.bot.user_id = u
    /\ req.bot.cleaned = n

\* C35: when the bot counts the n cleaned URLs of a message for a user, the
\* cleaned_count that get_user_config returns for the user grows by n, also
\* for a user who has no stored user_configs row.
C35_CountGrowsByCleaned ==
    [][ \A u \in { 0 } \cup Users, n \in 1 .. MaxCleaned :
          Increments(u, n) => CleanedCount(db', u) = CleanedCount(db, u) + n ]_vars

\* C36: a subscriber of the event stream has received only events whose
\* user_id is the id of its session, and a subscriber without a valid
\* session has received no event.
C36_EventIsolation ==
    \A s \in Subscribers :
        IF IsSome(req.events[s].session)
        THEN \A event \in out.received[s] : event.user_id = Unwrap(req.events[s].session)
        ELSE out.received[s] = { }

(***************************************************************************)
(* One login request: the parameters and the time are drawn, auth_callback *)
(* answers.                                                                *)
(***************************************************************************)
InitAuth ==
    /\ providers = CHOOSE p \in Stores : TRUE
    /\ readers = [ t \in Threads |-> 0 ]
    /\ writer = "none"
    /\ writerFirst = FALSE
    /\ call = [ t \in Threads |-> IdleCall ]
    /\ task = IdleTask
    /\ expansion = IdleExpansion
    /\ db = EmptyDb
    /\ \E fields \in FieldMaps, now \in Nows :
         \E hash \in Hashes(fields) :
            req = [ IdleReq EXCEPT !.auth.pc = "request",
                                   !.auth.params = [ fields |-> fields, hash |-> hash ],
                                   !.auth.now = now ]
    /\ out = NoOutput

NextAuth == AuthCallback

SpecAuth == InitAuth /\ [][NextAuth]_vars

\* The signed fields in ascending order of their names.
SignedFields ==
    << AuthDateKey, FirstNameKey, IdKey,
       << "l", "a", "s", "t", "_", "n", "a", "m", "e" >>,
       << "p", "h", "o", "t", "o", "_", "u", "r", "l" >>,
       << "u", "s", "e", "r", "n", "a", "m", "e" >> >>

\* The hex HMAC-SHA256, keyed with the SHA-256 of the token, of the
\* "key=value" lines of the signed fields that the parameters hold.
SignedHash(fields, token) ==
    LET present == SelectSeq(SignedFields, LAMBDA k : k \in DOMAIN fields)
        lines   == [ i \in 1 .. Len(present) |-> present[i] \o << "=" >> \o fields[present[i]] ]
    IN  HexEncode(HmacSha256(Sha256(token), JoinLines(lines)))

\* The parameter sets that differ from the given one in the value of one
\* signed field, with the hash left as it was.
Tampered(params) ==
    { [ params EXCEPT !.fields[k] = v ] :
        << k, v >> \in { kv \in (DOMAIN params.fields \cap AllowedKeys)
                                  \X UNION { FieldValues(k) : k \in FieldKeys } :
                           /\ kv[2] \in FieldValues(kv[1])
                           /\ kv[2] # params.fields[kv[1]] } }

\* C37: verify_telegram_auth returns true only if the supplied hash equals
\* the hex HMAC-SHA256, keyed with SHA-256 of the bot token, of the sorted
\* "key=value" lines of the signed fields present; it returns false when
\* hash is missing, and false for the same parameters with the value of one
\* signed field changed and the hash kept.
C37_LoginVerification ==
    req.auth.pc = "done" =>
        LET params == req.auth.params
        IN  /\ req.auth.verified =>
                /\ IsSome(params.hash)
                /\ Unwrap(params.hash) = SignedHash(params.fields, BotToken)
                /\ \A changed \in Tampered(params) :
                      ~ verify_telegram_auth(changed, BotToken, req.auth.now)
            /\ params.hash = None => ~ req.auth.verified

\* A login is verified whose parameters hold two signed fields and one that
\* is not signed.
C37_VerifiedLogin ==
    /\ req.auth.pc = "done"
    /\ req.auth.verified
    /\ { IdKey, FirstNameKey, AuthDateKey, LangKey } = DOMAIN req.auth.params.fields
    /\ Tampered(req.auth.params) # { }

\* C38: every parameter set that verify_telegram_auth accepts carries an
\* auth_date that is a number, at most 60 seconds after and at most 86400
\* seconds before the current time; one with a missing or non-numeric
\* auth_date is not accepted.
C38_LoginFreshness ==
    (req.auth.pc = "done" /\ req.auth.verified) =>
        /\ AuthDateKey \in DOMAIN req.auth.params.fields
        /\ LET auth_date == ParseUnsigned(req.auth.params.fields[AuthDateKey])
           IN  /\ IsSome(auth_date)
               /\ Unwrap(auth_date) <= req.auth.now + 60
               /\ Unwrap(auth_date) >= req.auth.now - 86400

\* C39: every message the bot is about to send to list cleaned URLs, as a
\* reply or in place of a deleted message, for one URL or for many, is at
\* most MAX_MESSAGE_LENGTH bytes plus the "... (truncated)" marker long and
\* lists at least one cleaned URL.
C39_ReplySizeBound ==
    req.bot.pc = "send" =>
        /\ req.bot.response.len <= MAX_MESSAGE_LENGTH + TruncatedMarker
        /\ req.bot.response.listed >= 1

====
